---- MODULE Spec2Model ----
(***************************************************************************)
(* A model of js-schemathesis: the request executor and response validator *)
(* (src/src/tester/api-tester.js), the fuzz strategy catalog               *)
(* (src/src/fuzzer/fuzzing-engine.ts), the schema value synthesizer        *)
(* (src/src/generator/test-generator.ts) and the facade (src/src/index.ts).*)
(*                                                                         *)
(* The specifications of the module, one per component or entry point:     *)
(*   SpecRun        APITester.runTests and everything it awaits            *)
(*   SpecCancel     the same run, with a caller who may ask to cancel      *)
(*   SpecValidate   APITester.validateResponse on its own                  *)
(*   SpecFuzz       FuzzingEngine.generateFuzzTests                        *)
(*   SpecFuzzValue  FuzzingEngine.fuzzValue, as its two callers call it    *)
(*   SpecGen        TestGenerator.generateForEndpoint and the generators   *)
(*   SpecReplay     two generation calls of one generator                  *)
(*   SpecSuite      the cases of one run: generateTests, generateFuzzTests *)
(*   SpecSchema     APITester.validateResponseSchema in full               *)
(*   SpecFacade     JSSchemathesis: the runs, getResults and getSummary    *)
(*   SpecRequest    one case from generateForEndpoint to buildRequest      *)
(***************************************************************************)
EXTENDS Integers, Sequences, FiniteSets, TLC

VARIABLES
    \* ---- APITester (api-tester.js) ----
    pc,                \* position of the runTests coroutine
    retries,           \* this.options.retries
    validateResponses, \* this.options.validateResponses
    testCases,         \* the argument of runTests
    i,                 \* the loop index of runTests (0-based, as in the code)
    results,           \* the local result list of runTests
    attempt,           \* the loop index of executeRequest
    lastError,         \* executeRequest's lastError (0 = undefined)
    inFlight,          \* requests handed to the HTTP client and not yet settled
    waits,             \* the delays executeRequest awaited for the current request
    issued,            \* requests issued for the current case
    outcome,           \* what the transport finally gave the current case
    paces,             \* the inter-case delays runTests awaited in this run
    cancelled,         \* the case (0-based) during which the caller asked to
                       \* cancel the run; -1 while nobody asked
    \* ---- FuzzingEngine (fuzzing-engine.ts) ----
    fuzzPc,            \* position inside generateFuzzTests
    aggressiveness,    \* this.options.aggressiveness
    maxFuzzTests,      \* this.options.maxFuzzTests
    numTests,          \* generateFuzzTests' numTests
    strategyIndex,     \* strategies already generated by the loop (line 88)
    fuzzTests,         \* generateFuzzTests' fuzzTests, then what it returns
    fuzzEndpoint,      \* the method and the path generateFuzzTests was given
    fuzzArgs,          \* the arguments of the last fuzzValue call
    fuzzResult,        \* and what that call returned or threw
    \* ---- TestGenerator (test-generator.ts) ----
    genPc,             \* what the generator does next: call, resume, return, throw
    stack,             \* the generateValueForSchema calls waiting for a nested call
    callSchema,        \* the schema argument of the call being entered
    callValid,         \* options.valid of the call being entered
    retValue,          \* the value being returned, then the generated value
    returned,          \* the generator that produced retValue, with its arguments
    genError,          \* the error being thrown, then the error the run ended with
    rootSchema,        \* the schema generation was asked for
    rootValid,         \* and the mode it was asked in
    seed,              \* this.options.seed
    previous,          \* the generation call completed before this one
    \* ---- APITester.validateResponse on its own ----
    checked,           \* the arguments of the last validateResponse call
    validation,        \* and what that call returned
    \* ---- the cases of one run (index.ts, generateTests) ----
    suitePc,           \* position inside generateTests
    maxTests,          \* this.options.maxTests of the generator
    generateInvalidData, \* this.options.generateInvalidData
    endpoints,         \* the operations of the document, in Object.entries order
    endpointIndex,     \* operations generateTests has gone through
    suiteCases,        \* generateTests' testCases, then what it returns
    \* ---- JSSchemathesis (index.ts) ----
    storedResults,     \* this.results
    latestRun,         \* the run started last, and what it returned
    runsStarted,       \* runs started so far
    summary,           \* what getSummary returned since the last run
    \* ---- one case from its generation to its request ----
    requestCase,       \* the case generateForEndpoint made for the operation
    config             \* the request buildRequest made of it

runVars == <<pc, retries, validateResponses, testCases, i, results, attempt,
             lastError, inFlight, waits, issued, outcome, paces, cancelled>>

fuzzVars == <<fuzzPc, aggressiveness, maxFuzzTests, numTests, strategyIndex,
              fuzzTests, fuzzEndpoint>>

fuzzValueVars == <<fuzzArgs, fuzzResult>>

genVars == <<genPc, stack, callSchema, callValid, retValue, returned, genError,
             rootSchema, rootValid, seed, previous>>

validateVars == <<checked, validation>>

suiteVars == <<suitePc, maxTests, generateInvalidData, endpoints, endpointIndex,
               suiteCases>>

facadeVars == <<storedResults, latestRun, runsStarted, summary>>

requestVars == <<requestCase, config>>

vars == <<runVars, fuzzVars, fuzzValueVars, genVars, validateVars, suiteVars,
          facadeVars, requestVars>>

\* what the actions of one component leave alone
notRun == <<fuzzVars, fuzzValueVars, genVars, validateVars, suiteVars,
    facadeVars, requestVars>>
notFuzz == <<runVars, fuzzValueVars, genVars, validateVars, suiteVars,
    facadeVars, requestVars>>
notFuzzValue == <<runVars, fuzzVars, genVars, validateVars, suiteVars,
    facadeVars, requestVars>>
notGen == <<runVars, fuzzVars, fuzzValueVars, validateVars, suiteVars,
    facadeVars, requestVars>>
notValidate == <<runVars, fuzzVars, fuzzValueVars, genVars, suiteVars,
    facadeVars, requestVars>>
notSuite == <<runVars, fuzzVars, fuzzValueVars, genVars, validateVars,
    facadeVars, requestVars>>
notFacade == <<runVars, fuzzVars, fuzzValueVars, genVars, validateVars, suiteVars,
    requestVars>>
notRequest == <<runVars, fuzzVars, fuzzValueVars, genVars, validateVars, suiteVars,
    facadeVars>>

\* -------------------------------------------------------------------------
\* Bounds of the model
\* -------------------------------------------------------------------------
MaxCases == 3
MaxRetries == 5
MaxFuzzN == 12
MaxDepth == 6

\* -------------------------------------------------------------------------
\* Small helpers
\* -------------------------------------------------------------------------
Min(a, b) == IF a < b THEN a ELSE b

RECURSIVE Pow2(_)
Pow2(k) == IF k = 0 THEN 1 ELSE 2 * Pow2(k - 1)

Range(seq) == {seq[k] : k \in DOMAIN seq}

\* A text is the sequence of its parts.  Array.prototype.join(separator):
RECURSIVE Join(_, _)
Join(texts, separator) ==
    IF texts = <<>> THEN <<>>
    ELSE IF Len(texts) = 1 THEN texts[1]
    ELSE texts[1] \o <<separator>> \o Join(Tail(texts), separator)

\* -------------------------------------------------------------------------
\* Inputs of the executor
\* -------------------------------------------------------------------------
\* expectedOutcome is a string or a number in the code; both are kept in one
\* record so that the two can be compared.
Outcome(kind) == [kind |-> kind, code |-> 0]
Literal(code) == [kind |-> "literal", code |-> code]

ExpectedOutcomes == {Outcome("success"), Outcome("client_error")}

\* The k-th case of a run (0-based) has id k: ids are what the caller gave.
CaseLists ==
    UNION {[1..n -> ExpectedOutcomes] : n \in 0..MaxCases}

MakeCases(outcomes) ==
    [k \in 1..Len(outcomes) |-> [id |-> k - 1, expectedOutcome |-> outcomes[k]]]

\* What an HTTP server can answer.  size is the length of JSON.stringify(data).
Statuses == {100, 200, 404, 599}
Bodies ==
    { [kind |-> "string", size |-> 2],      \* ""
      [kind |-> "string", size |-> 1001],   \* a string of 999 characters
      [kind |-> "object", size |-> 1000],
      [kind |-> "object", size |-> 1001] }

Responses ==
    [status : Statuses, contentType : BOOLEAN, data : Bodies, conforms : BOOLEAN]

\* -------------------------------------------------------------------------
\* APITester: pure parts
\* -------------------------------------------------------------------------
\* executeRequest, line 206
BackoffCap == 5000
BackoffBase == 1000
\* (a variant without the cap)
BackoffDelayUncapped(k) == BackoffBase * Pow2(k)
BackoffDelay(k) == Min(BackoffBase * Pow2(k), BackoffCap)

\* executeRequest, line 205: is another attempt made after attempt k failed?
\* (a variant with an off-by-one bound)
ShouldRetryOnceMore(k) == k <= retries
ShouldRetry(k) == k < retries

\* validateStatusCode, lines 265-284: the statuses expectedOutcome stands for
\* (a variant that treats a numeric expectation like an unknown one)
ExpectedStatusesLiteralAsDefault(expectedOutcome) ==
    CASE expectedOutcome.kind = "success" -> <<200, 201, 202, 204>>
      [] expectedOutcome.kind = "client_error" -> <<400, 401, 403, 404, 422>>
      [] expectedOutcome.kind = "server_error" -> <<500, 501, 502, 503>>
      [] OTHER -> <<200, 201, 202, 204>>
ExpectedStatuses(expectedOutcome) ==
    CASE expectedOutcome.kind = "success" -> <<200, 201, 202, 204>>
      [] expectedOutcome.kind = "client_error" -> <<400, 401, 403, 404, 422>>
      [] expectedOutcome.kind = "server_error" -> <<500, 501, 502, 503>>
      [] expectedOutcome.kind = "literal" -> <<expectedOutcome.code>>
      [] OTHER -> <<200, 201, 202, 204>>

\* validateStatusCode
validateStatusCode(response, testCase) ==
    LET expectedStatuses == ExpectedStatuses(testCase.expectedOutcome)
        valid == response.status \in Range(expectedStatuses)
    IN  [type |-> "status_code", valid |-> valid,
         message |->
           IF valid
           THEN <<"Status ", ToString(response.status), " is expected">>
           ELSE <<"Status ", ToString(response.status), " not in expected range ">>
                  \o Join([k \in DOMAIN expectedStatuses |->
                             <<ToString(expectedStatuses[k])>>], ", ")]

\* validateResponseSchema never throws (its body is one try/catch); whether the
\* body conforms to the declared schema (or no schema is declared for it) is
\* the response's `conforms`.
validateResponseSchema(response, testCase) ==
    [type |-> "schema", valid |-> response.conforms,
     message |-> IF response.conforms THEN <<"Response schema valid">>
                 ELSE <<"Schema validation failed: ", "errors">>]

\* validateResponseHeaders: data && typeof data === "object" && no content-type
Truthy(data) == data.kind = "object" \/ data.size > 2

validateResponseHeaders(response) ==
    IF Truthy(response.data) /\ response.data.kind = "object"
         /\ ~response.contentType
    THEN [type |-> "headers", valid |-> FALSE,
          message |-> <<"Missing Content-Type header for response with content">>]
    ELSE [type |-> "headers", valid |-> TRUE, message |-> <<"Headers valid">>]

\* validateResponse; `schema` says whether the schema argument is given
\* (a variant whose verdict leaves the header check out)
validateResponseIgnoringHeaders(response, testCase, schema) ==
    LET statusValidation == validateStatusCode(response, testCase)
        schemaChecked == validateResponses /\ schema
        schemaValidation == validateResponseSchema(response, testCase)
        headerValidation == validateResponseHeaders(response)
        validations ==
            <<statusValidation>>
              \o (IF schemaChecked THEN <<schemaValidation>> ELSE <<>>)
              \o <<headerValidation>>
        failing == SelectSeq(validations, LAMBDA v : ~v.valid)
        joined == Join([k \in DOMAIN failing |-> failing[k].message], "; ")
    IN  [valid |-> IF ~statusValidation.valid THEN FALSE
                   ELSE IF schemaChecked /\ ~schemaValidation.valid THEN FALSE
                   ELSE TRUE,
         message |-> IF joined = <<>> THEN <<"All validations passed">> ELSE joined,
         validations |-> validations]
validateResponse(response, testCase, schema) ==
    LET statusValidation == validateStatusCode(response, testCase)
        schemaChecked == validateResponses /\ schema
        schemaValidation == validateResponseSchema(response, testCase)
        headerValidation == validateResponseHeaders(response)
        validations ==
            <<statusValidation>>
              \o (IF schemaChecked THEN <<schemaValidation>> ELSE <<>>)
              \o <<headerValidation>>
        failing == SelectSeq(validations, LAMBDA v : ~v.valid)
        joined == Join([k \in DOMAIN failing |-> failing[k].message], "; ")
    IN  [valid |-> IF ~statusValidation.valid THEN FALSE
                   ELSE IF schemaChecked /\ ~schemaValidation.valid THEN FALSE
                   ELSE IF ~headerValidation.valid THEN FALSE
                   ELSE TRUE,
         message |-> IF joined = <<>> THEN <<"All validations passed">> ELSE joined,
         validations |-> validations]

\* truncateData: JSON.parse of the first 1000 characters of a longer JSON text.
\* The text of a string lacks its closing quote and that of an object or an
\* array its closing bracket, so the parse throws a SyntaxError.
TruncateLimit == 1000
truncateDataThrows(data) == data.size > TruncateLimit

sanitizeResponseThrows(response) == truncateDataThrows(response.data)

\* -------------------------------------------------------------------------
\* APITester: the results runSingleTest and runTests build
\* -------------------------------------------------------------------------
Result(testCase, status, error, errorOf, full, timed) ==
    [id |-> testCase.id, status |-> status, error |-> error,
     errorOf |-> errorOf, hasResponse |-> full, hasValidation |-> full,
     hasDuration |-> timed]

\* runSingleTest, lines 129-139 and, when sanitizeResponse throws, 140-150
ResponseResult(testCase, response) ==
    IF sanitizeResponseThrows(response)
    THEN Result(testCase, "error", "SyntaxError", 0, FALSE, TRUE)
    ELSE Result(testCase,
                IF validateResponse(response, testCase, TRUE).valid
                THEN "passed" ELSE "failed",
                "none", 0, TRUE, TRUE)

\* runSingleTest, lines 140-150, for the error executeRequest threw
ThrownResult(testCase, err) ==
    IF err = 0
    THEN \* `undefined` was thrown: error.message throws inside the catch
         \* block and runTests' own catch (lines 87-95) builds the result
         Result(testCase, "error", "TypeError", 0, FALSE, FALSE)
    ELSE Result(testCase, "error", "transport", err, FALSE, TRUE)

\* -------------------------------------------------------------------------
\* APITester: the coroutine
\* -------------------------------------------------------------------------
\* runTests lines 72/95 and 102-108: the result is appended, then either the
\* inter-case delay is awaited or the loop ends and the list is returned.
\* (a variant in which an errored case ends the run)
\* runTests, line 104
PaceDelay == 50

CompleteCaseAbortOnError(result) ==
    /\ results' = Append(results, result)
    /\ IF result.status = "error" \/ ~(i < Len(testCases) - 1)
       THEN pc' = "done" /\ paces' = paces
       ELSE pc' = "pace" /\ paces' = Append(paces, PaceDelay)
\* (a variant that also waits after the last case)
CompleteCasePaceAfterLast(result) ==
    /\ results' = Append(results, result)
    /\ paces' = Append(paces, PaceDelay)
    /\ pc' = IF i < Len(testCases) - 1 THEN "pace" ELSE "done"
CompleteCase(result) ==
    /\ results' = Append(results, result)
    /\ IF i < Len(testCases) - 1
       THEN pc' = "pace" /\ paces' = Append(paces, PaceDelay)
       ELSE pc' = "done" /\ paces' = paces

\* (a variant that hands every remaining request to the client at once)
BeginCaseAllAtOnce(k, cases) ==
    /\ attempt' = 0
    /\ lastError' = 0
    /\ waits' = <<>>
    /\ inFlight' = inFlight + (Len(cases) - k)
    /\ issued' = 1
    /\ outcome' = "none"
    /\ pc' = "request"
    /\ results' = results
    /\ paces' = paces

\* runSingleTest up to its first suspension: buildRequest, then executeRequest
\* enters its loop and hands the request to the client (line 200); with a
\* negative retry count the loop body never runs and `undefined` is thrown.
BeginCase(k, cases) ==
    /\ attempt' = 0
    /\ lastError' = 0
    /\ waits' = <<>>
    /\ IF 0 <= retries
       THEN /\ inFlight' = inFlight + 1
            /\ issued' = 1
            /\ outcome' = "none"
            /\ pc' = "request"
            /\ results' = results
            /\ paces' = paces
       ELSE /\ inFlight' = inFlight
            /\ issued' = 0
            /\ outcome' = "failed"
            /\ results' = Append(results, ThrownResult(cases[k + 1], 0))
            /\ IF k < Len(cases) - 1
               THEN pc' = "pace" /\ paces' = Append(paces, PaceDelay)
               ELSE pc' = "done" /\ paces' = paces

\* runTests is called: lines 56-71
RunTests(cases) ==
    /\ UNCHANGED notRun
    /\ UNCHANGED cancelled
    /\ pc = "idle"
    /\ testCases' = cases
    /\ i' = 0
    /\ IF Len(cases) = 0
       THEN /\ pc' = "done"
            /\ UNCHANGED <<results, attempt, lastError, inFlight, waits, issued,
                           outcome, paces>>
       ELSE BeginCase(0, cases)
    /\ UNCHANGED <<retries, validateResponses>>

\* the client resolves the request in flight: executeRequest returns it (line
\* 201) and runSingleTest validates it and builds the result
RequestResolves(response) ==
    /\ UNCHANGED notRun
    /\ UNCHANGED cancelled
    /\ pc = "request"
    /\ inFlight' = inFlight - 1
    /\ outcome' = "response"
    /\ CompleteCase(ResponseResult(testCases[i + 1], response))
    /\ UNCHANGED <<retries, validateResponses, testCases, i, attempt, lastError,
                   waits, issued>>

\* the client rejects the request in flight (network error, timeout): lines
\* 202-209, and 212 when that was the last attempt
RequestRejects ==
    /\ UNCHANGED notRun
    /\ UNCHANGED cancelled
    /\ pc = "request"
    /\ inFlight' = inFlight - 1
    /\ lastError' = attempt + 1
    /\ IF ShouldRetry(attempt)
       THEN /\ waits' = Append(waits, BackoffDelay(attempt))
            /\ pc' = "backoff"
            /\ UNCHANGED <<results, outcome, attempt, paces>>
       ELSE /\ attempt' = attempt + 1
            /\ outcome' = "failed"
            /\ CompleteCase(ThrownResult(testCases[i + 1], attempt + 1))
            /\ UNCHANGED waits
    /\ UNCHANGED <<retries, validateResponses, testCases, i, issued>>

\* the backoff delay elapses: the loop of executeRequest goes round (line 198)
BackoffElapses ==
    /\ UNCHANGED notRun
    /\ UNCHANGED cancelled
    /\ pc = "backoff"
    /\ attempt' = attempt + 1
    /\ inFlight' = inFlight + 1
    /\ issued' = issued + 1
    /\ pc' = "request"
    /\ UNCHANGED <<retries, validateResponses, testCases, i, results, lastError,
                   waits, outcome, paces>>

\* the inter-case delay elapses (line 104): the loop of runTests goes round
PaceElapses ==
    /\ UNCHANGED notRun
    /\ UNCHANGED cancelled
    /\ pc = "pace"
    /\ i' = i + 1
    /\ BeginCase(i + 1, testCases)
    /\ UNCHANGED <<retries, validateResponses, testCases>>

\* The caller asks to cancel the run while a case is executing.  runTests
\* (lines 55-109) takes no signal and reads no flag: the request changes
\* nothing the loop looks at.
CancelRequested ==
    /\ pc \in {"request", "backoff"}
    /\ cancelled = 0 - 1
    /\ cancelled' = i
    /\ UNCHANGED <<pc, retries, validateResponses, testCases, i, results, attempt,
                   lastError, inFlight, waits, issued, outcome, paces>>
    /\ UNCHANGED notRun

\* -------------------------------------------------------------------------
\* APITester.validateResponse called on its own
\* -------------------------------------------------------------------------
ValidatedStatuses ==
    {100, 200, 201, 202, 204, 299, 302, 400, 401, 403, 404, 422, 500, 501, 502,
     503, 504, 599}

ValidatedResponses ==
    [status : ValidatedStatuses, contentType : BOOLEAN, data : Bodies,
     conforms : BOOLEAN]

\* expectedOutcome: the three names, numbers, and a name the switch of
\* validateStatusCode does not know
ValidatedOutcomes ==
    {Outcome("success"), Outcome("client_error"), Outcome("server_error"),
     Outcome("redirect"), Literal(200), Literal(299), Literal(404)}

NotChecked == [called |-> FALSE]

ValidateResponse(response, testCase, schema) ==
    /\ ~checked.called
    /\ checked' = [called |-> TRUE, response |-> response, testCase |-> testCase,
                   schema |-> schema]
    /\ validation' = validateResponse(response, testCase, schema)
    /\ UNCHANGED notValidate

ValidateIdle == checked = NotChecked /\ validation = NotChecked

\* -------------------------------------------------------------------------
\* The rest states of the facade and of the request builder
\* -------------------------------------------------------------------------
NoRun == [started |-> 0]
NotAsked == [asked |-> FALSE]

\* index.ts, line 26: results starts as the empty list
FacadeIdle ==
    /\ storedResults = <<>>
    /\ latestRun = NoRun
    /\ runsStarted = 0
    /\ summary = NotAsked

NotBuilt == [built |-> FALSE]

RequestIdle == requestCase = NotBuilt /\ config = NotBuilt

RunAtRest ==
    /\ pc = "idle"
    /\ testCases = <<>>
    /\ i = 0
    /\ results = <<>>
    /\ attempt = 0
    /\ lastError = 0
    /\ inFlight = 0
    /\ waits = <<>>
    /\ issued = 0
    /\ outcome = "none"
    /\ paces = <<>>
    /\ cancelled = 0 - 1

\* the options the other specifications leave at their defaults
RunIdle == retries = 0 /\ validateResponses = TRUE /\ RunAtRest

NextRun ==
    \/ \E outcomes \in CaseLists : RunTests(MakeCases(outcomes))
    \/ \E response \in Responses : RequestResolves(response)
    \/ RequestRejects
    \/ BackoffElapses
    \/ PaceElapses

\* -------------------------------------------------------------------------
\* FuzzingEngine
\* -------------------------------------------------------------------------
Levels == {"low", "medium", "high"}

\* initializeFuzzStrategies
initializeFuzzStrategies(level) ==
    CASE level = "low" -> <<"boundary", "nulls", "empty">>
      [] level = "high" ->
            <<"boundary", "nulls", "empty", "overflow", "type_confusion",
              "encoding", "injection", "malformed">>
      [] OTHER ->
            <<"boundary", "nulls", "empty", "overflow", "type_confusion",
              "encoding">>

fuzzStrategies == initializeFuzzStrategies(aggressiveness)

\* getExpectedOutcome
getExpectedOutcome(strategy) ==
    IF strategy \in {"overflow", "malformed"}
    THEN Outcome("server_error")
    ELSE Outcome("client_error")

\* Math.ceil(a / b) for positive b
CeilDiv(a, b) == (a + b - 1) \div b

\* The operations of the document.  A text that goes into a case id is kept
\* as its parts between underscores, so that two ids are the same text
\* exactly when they are the same sequence.
Underscored(parts) == Join([k \in DOMAIN parts |-> <<parts[k]>>], "_")

Methods == {<<"get">>, <<"post">>}
Paths ==
    {<<"/pets">>, Underscored(<<"/pets", "valid", "0">>),
     Underscored(<<"/pets", "fuzz", "type">>)}

Endpoint(method, path) == [method |-> method, path |-> path]
NoEndpoint == Endpoint(<<>>, <<>>)

\* Object.entries(schema.paths), then Object.entries(pathItem)
AllEndpoints ==
    <<Endpoint(<<"get">>, <<"/pets">>),
      Endpoint(<<"post">>, <<"/pets">>),
      Endpoint(<<"get">>, Underscored(<<"/pets", "valid", "0">>)),
      Endpoint(<<"post">>, Underscored(<<"/pets", "valid", "0">>)),
      Endpoint(<<"get">>, Underscored(<<"/pets", "fuzz", "type">>)),
      Endpoint(<<"post">>, Underscored(<<"/pets", "fuzz", "type">>))>>

\* the name of a strategy as a text
StrategyText(strategy) ==
    IF strategy = "type_confusion" THEN Underscored(<<"type", "confusion">>)
    ELSE <<strategy>>

\* generateStrategyTests, line 118: `${method}_${path}_fuzz_${strategy}_${i}`
FuzzCaseId(endpoint, strategy, index) ==
    Join(<<endpoint.method, endpoint.path, <<"fuzz">>, StrategyText(strategy),
           <<ToString(index)>>>>, "_")

\* generateStrategyTests: `count` cases of one strategy, numbered from 0
generateStrategyTests(strategy, count) ==
    [k \in 1..count |->
        [id |-> FuzzCaseId(fuzzEndpoint, strategy, k - 1), type |-> "fuzz",
         strategy |-> strategy, expectedOutcome |-> getExpectedOutcome(strategy)]]

\* Array.prototype.slice(0, n) for n >= 0
Slice(seq, n) == SubSeq(seq, 1, Min(n, Len(seq)))

DefaultMaxFuzzTests == 50

\* generateFuzzTests, lines 74-85: the path and the operation are looked up
\* (a missing one throws) and numTests is fixed.
GenerateFuzzTests(pathFound, operationFound, endpoint, optionsMaxTests) ==
    /\ fuzzPc = "idle"
    /\ fuzzEndpoint' = endpoint
    /\ IF pathFound /\ operationFound
       THEN /\ fuzzPc' = "strategies"
            /\ numTests' = IF optionsMaxTests # 0 THEN optionsMaxTests
                           ELSE maxFuzzTests
       ELSE /\ fuzzPc' = "threw"
            /\ numTests' = numTests
    /\ UNCHANGED <<aggressiveness, maxFuzzTests, strategyIndex, fuzzTests>>
    /\ UNCHANGED notFuzz

\* one round of the loop of lines 88-98
GenerateStrategy ==
    /\ fuzzPc = "strategies"
    /\ strategyIndex < Len(fuzzStrategies)
    /\ fuzzTests' = fuzzTests \o
          generateStrategyTests(fuzzStrategies[strategyIndex + 1],
                                CeilDiv(numTests, Len(fuzzStrategies)))
    /\ strategyIndex' = strategyIndex + 1
    /\ UNCHANGED <<fuzzPc, aggressiveness, maxFuzzTests, numTests, fuzzEndpoint>>
    /\ UNCHANGED notFuzz

\* line 100
ReturnFuzzTests ==
    /\ fuzzPc = "strategies"
    /\ strategyIndex = Len(fuzzStrategies)
    /\ fuzzTests' = Slice(fuzzTests, numTests)
    /\ fuzzPc' = "done"
    /\ UNCHANGED <<aggressiveness, maxFuzzTests, numTests, strategyIndex,
                   fuzzEndpoint>>
    /\ UNCHANGED notFuzz

FuzzAtRest ==
    /\ numTests = 0
    /\ strategyIndex = 0
    /\ fuzzTests = <<>>
    /\ fuzzEndpoint = NoEndpoint

FuzzIdle ==
    /\ fuzzPc = "idle"
    /\ aggressiveness = "medium"
    /\ maxFuzzTests = DefaultMaxFuzzTests
    /\ FuzzAtRest

\* -------------------------------------------------------------------------
\* TestGenerator: the cases of generateTests
\* -------------------------------------------------------------------------
\* generateForEndpoint, lines 81 and 100: `${method}_${path}_${kind}_${i}`
\* (a variant that leaves the kind out)
CaseIdWithoutKind(endpoint, kind, index) ==
    Join(<<endpoint.method, endpoint.path, <<ToString(index)>>>>, "_")
CaseId(endpoint, kind, index) ==
    Join(<<endpoint.method, endpoint.path, <<kind>>, <<ToString(index)>>>>, "_")

\* the constructor, line 23, and generateForEndpoint, line 76
DefaultMaxTests == 100
EndpointCap == 20

\* generateForEndpoint, lines 75-116: numTests valid cases, then half as many
\* invalid ones when invalid data is wanted
generateForEndpoint(endpoint, optionsMaxTests) ==
    LET count == IF optionsMaxTests # 0 THEN optionsMaxTests
                 ELSE Min(maxTests, EndpointCap)
        validCases ==
            [k \in 1..count |->
                [id |-> CaseId(endpoint, "valid", k - 1), type |-> "valid",
                 expectedOutcome |-> Outcome("success")]]
        invalidCases ==
            [k \in 1..(count \div 2) |->
                [id |-> CaseId(endpoint, "invalid", k - 1), type |-> "invalid",
                 expectedOutcome |-> Outcome("client_error")]]
    IN  IF generateInvalidData THEN validCases \o invalidCases ELSE validCases

\* the documents handed to generateTests: any choice of the operations
Documents ==
    {SelectSeq(AllEndpoints, LAMBDA e : e \in chosen) :
        chosen \in SUBSET Range(AllEndpoints)}

\* generateTests, lines 35-38
GenerateTests(document) ==
    /\ suitePc = "idle"
    /\ endpoints' = document
    /\ endpointIndex' = 0
    /\ suiteCases' = <<>>
    /\ suitePc' = "endpoints"
    /\ UNCHANGED <<maxTests, generateInvalidData>>
    /\ UNCHANGED notSuite

\* generateTests, lines 41-48: the cases of the next operation are appended;
\* `throws` says that a parameter or the body of the operation is declared
\* by a reference that does not resolve, which rejects the whole call
GenerateForEndpoint(throws) ==
    /\ suitePc = "endpoints"
    /\ endpointIndex < Len(endpoints)
    /\ IF throws
       THEN /\ suitePc' = "threw"
            /\ UNCHANGED <<endpointIndex, suiteCases>>
       ELSE /\ suiteCases' = suiteCases
                    \o generateForEndpoint(endpoints[endpointIndex + 1], 0)
            /\ endpointIndex' = endpointIndex + 1
            /\ UNCHANGED suitePc
    /\ UNCHANGED <<maxTests, generateInvalidData, endpoints>>
    /\ UNCHANGED notSuite

\* generateTests, line 53
ReturnTests ==
    /\ suitePc = "endpoints"
    /\ endpointIndex = Len(endpoints)
    /\ suitePc' = "done"
    /\ UNCHANGED <<maxTests, generateInvalidData, endpoints, endpointIndex,
                   suiteCases>>
    /\ UNCHANGED notSuite

SuiteAtRest ==
    /\ endpoints = <<>>
    /\ endpointIndex = 0
    /\ suiteCases = <<>>

SuiteIdle ==
    /\ suitePc = "idle"
    /\ maxTests = DefaultMaxTests
    /\ generateInvalidData = TRUE
    /\ SuiteAtRest

\* -------------------------------------------------------------------------
\* TestGenerator: JavaScript values and schema nodes
\* -------------------------------------------------------------------------
\* A value carries its JavaScript type; a number is kept in tenths so that
\* maximum + 0.1 is a value; a string is its text's name and its length.
Str(text, len) == [t |-> "string", text |-> text, len |-> len]
Num(tenths) == [t |-> "number", tenths |-> tenths]
Whole(n) == Num(10 * n)
Bool(b) == [t |-> "boolean", b |-> b]
Null == [t |-> "null"]
Arr(items) == [t |-> "array", items |-> items]
Obj(fields) == [t |-> "object", fields |-> fields]

\* obj[key] = value and delete obj[key]
Put(fields, key, value) == (key :> value) @@ fields
Delete(fields, key) == [k \in DOMAIN fields \ {key} |-> fields[k]]

\* A schema node is a record holding the keywords it declares, as the parsed
\* JSON object does: schema.maximum !== undefined is Has(schema, "maximum").
Has(schema, keyword) == keyword \in DOMAIN schema

\* `schema.maxItems || 10`: a present keyword whose value is truthy
Truthful(schema, keyword) == Has(schema, keyword) /\ schema[keyword] # 0

\* `schema.type || "string"`
TypeOf(schema) == IF Has(schema, "type") THEN schema.type ELSE "string"

LocalRef(name) == [ref |-> [prefix |-> "#/", path |-> <<"components", "schemas", name>>]]
ExternalRef(name) ==
    [ref |-> [prefix |-> "other.json#/", path |-> <<"components", "schemas", name>>]]

Prop(name, schema) == [name |-> name, schema |-> schema]

\* The interface document of the model: its component schemas cover plain
\* constraints, nesting, references, reference cycles and broken references.
Document ==
    [components |-> [schemas |-> [
        Id |-> [type |-> "integer", minimum |-> 1, maximum |-> 3],
        Name |-> [type |-> "string", maxLength |-> 3],
        Flag |-> [type |-> "boolean"],
        Pet |-> [type |-> "object",
                 properties |-> <<Prop("id", LocalRef("Id")),
                                  Prop("name", LocalRef("Name")),
                                  Prop("tag", [type |-> "string"])>>,
                 required |-> <<"id", "name">>],
        Pair |-> [type |-> "object",
                  properties |-> <<Prop("lo", [type |-> "integer", maximum |-> 3]),
                                   Prop("hi", [type |-> "integer", maximum |-> 3])>>],
        Tags |-> [type |-> "array",
                  items |-> [type |-> "integer", maximum |-> 3],
                  maxItems |-> 2],
        Node |-> [type |-> "object",
                  properties |-> <<Prop("next", LocalRef("Node"))>>,
                  required |-> <<"next">>],
        Ping |-> LocalRef("Pong"),
        Pong |-> LocalRef("Ping"),
        Loose |-> [type |-> "object",
                   properties |-> <<Prop("a", [type |-> "boolean"])>>,
                   required |-> <<"a", "b">>],
        Broken |-> [type |-> "object",
                    properties |-> <<Prop("x", LocalRef("Missing"))>>,
                    required |-> <<"x">>]
    ]]]

ComponentNames == DOMAIN Document.components.schemas

\* resolveReference: only "#/..." pointers; the path is walked from the root
\* and an undefined step throws.
RECURSIVE Walk(_, _)
Walk(current, path) ==
    IF path = <<>> THEN [found |-> TRUE, node |-> current]
    ELSE IF Head(path) \in DOMAIN current
         THEN Walk(current[Head(path)], Tail(path))
         ELSE [found |-> FALSE, node |-> Null]

resolveReference(root, ref) ==
    IF ref.prefix # "#/" THEN [found |-> FALSE, node |-> Null, error |-> "NotLocal"]
    ELSE LET w == Walk(root, ref.path)
         IN  [found |-> w.found, node |-> w.node,
              error |-> IF w.found THEN "none" ELSE "InvalidReference"]

\* -------------------------------------------------------------------------
\* Schemas of strings and numbers
\* -------------------------------------------------------------------------
MaxLength == 5

\* string schemas: a maximum length alone, with a minimum length, with a
\* pattern, with a format
StringSchemas ==
    {[type |-> "string", maxLength |-> L] : L \in 0..MaxLength}
      \cup {[type |-> "string", minLength |-> l, maxLength |-> L] :
               l \in 0..MaxLength, L \in 0..MaxLength}
      \cup {[type |-> "string", maxLength |-> L, pattern |-> pattern] :
               L \in 0..MaxLength,
               pattern \in {"^[a-zA-Z0-9]+$", "^[0-9]{2}$", "^[a-z]*$", "^x?$"}}
      \cup {[type |-> "string", maxLength |-> L, format |-> format] :
               L \in 0..MaxLength,
               format \in {"email", "uuid", "date", "date-time", "uri", "hostname"}}
      \cup {[type |-> "string", minLength |-> l] : l \in 0..MaxLength}
      \cup {[maxLength |-> L] : L \in 0..MaxLength}

\* number schemas whose bounds admit a value
MaxNumber == 2
NumberBounds == (0 - 1)..MaxNumber

NumberSchemas ==
    {[type |-> type, minimum |-> range[1], maximum |-> range[2]] :
        type \in {"integer", "number"},
        range \in {r \in NumberBounds \X NumberBounds : r[1] <= r[2]}}
      \cup {[type |-> type, minimum |-> m] :
               type \in {"integer", "number"}, m \in NumberBounds}
      \cup {[type |-> type, maximum |-> M] :
               type \in {"integer", "number"}, M \in NumberBounds}
      \cup {[type |-> "integer"], [type |-> "number"],
            [type |-> "integer", minimum |-> 1, maximum |-> 10]}

\* array schemas: every choice of minItems and maxItems, absent included, of
\* small sizes and of one size above the cap of generateArray (line 372);
\* the items admit one valid value
MaxItems == 2
ArrayCap == 10
ItemCounts == 0..MaxItems \cup {ArrayCap + 1}
OneValue == [type |-> "integer", minimum |-> 1, maximum |-> 1]

ArraySchemas ==
    {[type |-> "array", items |-> OneValue, minItems |-> l, maxItems |-> K] :
        l \in ItemCounts, K \in ItemCounts}
      \cup {[type |-> "array", items |-> OneValue, minItems |-> l] : l \in ItemCounts}
      \cup {[type |-> "array", items |-> OneValue, maxItems |-> K] : K \in ItemCounts}
      \cup {[type |-> "array", items |-> OneValue]}

\* The schemas a parameter or a request body of an operation may declare.
RootSchemas ==
    {LocalRef(name) : name \in ComponentNames}
      \cup {LocalRef("Missing"), ExternalRef("Id"), [type |-> "string"],
            [enum |-> <<"red", "tan">>]}
      \cup StringSchemas
      \cup NumberSchemas
      \cup ArraySchemas

\* -------------------------------------------------------------------------
\* FuzzingEngine: fuzzValue and the generators of the strategies
\* -------------------------------------------------------------------------
Undefined == [t |-> "undefined"]
\* a number too large to be written out, by its name
Named(name) == [t |-> "number", name |-> name]
\* new Array(n).fill(text)
Filled(n, text) == [t |-> "array", length |-> n, fill |-> text]
\* an object of `keys` generated keys, or one that holds itself
Keyed(keys) == [t |-> "object", keys |-> keys]
Circular(type) == [t |-> type, circular |-> TRUE]

Strategies ==
    {"boundary", "nulls", "empty", "overflow", "type_confusion", "encoding",
     "injection", "malformed"}

\* generateBoundaryValue
generateBoundaryValue(schema, type) ==
    CASE type = "string" ->
            IF Has(schema, "maxLength") THEN {Str("x", schema.maxLength)}
            ELSE IF Has(schema, "minLength") THEN {Str("x", schema.minLength)}
            ELSE {Str("", 0)}
      [] type \in {"number", "integer"} ->
            IF Has(schema, "maximum") THEN {Whole(schema.maximum)}
            ELSE IF Has(schema, "minimum") THEN {Whole(schema.minimum)}
            ELSE IF type = "integer" THEN {Named("MAX_SAFE_INTEGER")}
            ELSE {Named("MAX_VALUE")}
      [] type = "array" ->
            IF Has(schema, "maxItems") THEN {Filled(schema.maxItems, "item")}
            ELSE IF Has(schema, "minItems") THEN {Filled(schema.minItems, "item")}
            ELSE {Arr(<<>>)}
      [] OTHER -> {Null}

\* generateNullValue: one of seven, whatever the type
generateNullValue(type) ==
    {Null, Undefined, Str("", 0), Whole(0), Bool(FALSE), Arr(<<>>), Obj(<<>>)}

\* generateEmptyValue
generateEmptyValue(type) ==
    CASE type = "string" -> {Str("", 0)}
      [] type = "array" -> {Arr(<<>>)}
      [] type = "object" -> {Obj(<<>>)}
      [] type \in {"number", "integer"} -> {Whole(0)}
      [] type = "boolean" -> {Bool(FALSE)}
      [] OTHER -> {Null}

\* generateOverflowValue, lines 332 and 342
OverflowFactor == 10
OverflowLength == 100000
OverflowItems == 10000
OverflowKeys == 1000

\* (a variant that repeats the maximum length itself)
generateOverflowValueAtLimit(schema, type) ==
    CASE type = "string" ->
            {Str("A", IF Truthful(schema, "maxLength")
                      THEN schema.maxLength ELSE OverflowLength)}
      [] type = "number" -> {Named("Infinity")}
      [] type = "integer" -> {Named("2 * MAX_SAFE_INTEGER")}
      [] type = "array" ->
            {Filled(IF Truthful(schema, "maxItems")
                    THEN schema.maxItems * OverflowFactor ELSE OverflowItems,
                    "overflow")}
      [] type = "object" -> {Keyed(OverflowKeys)}
      [] OTHER -> {Str("overflow", 8)}
generateOverflowValue(schema, type) ==
    CASE type = "string" ->
            {Str("A", IF Truthful(schema, "maxLength")
                      THEN schema.maxLength * OverflowFactor ELSE OverflowLength)}
      [] type = "number" -> {Named("Infinity")}
      [] type = "integer" -> {Named("2 * MAX_SAFE_INTEGER")}
      [] type = "array" ->
            {Filled(IF Truthful(schema, "maxItems")
                    THEN schema.maxItems * OverflowFactor ELSE OverflowItems,
                    "overflow")}
      [] type = "object" -> {Keyed(OverflowKeys)}
      [] OTHER -> {Str("overflow", 8)}

\* generateTypeConfusionValue
generateTypeConfusionValue(expectedType) ==
    CASE expectedType = "string" ->
            {Whole(42), Bool(TRUE), Arr(<<>>), Obj(<<>>), Null}
      [] expectedType = "number" ->
            {Str("not_a_number", 12), Bool(TRUE), Arr(<<>>), Obj(<<>>)}
      [] expectedType = "integer" ->
            {Num(31), Str("not_an_integer", 14), Bool(TRUE), Arr(<<>>)}
      [] expectedType = "boolean" ->
            {Str("true", 4), Whole(1), Whole(0), Arr(<<>>), Obj(<<>>)}
      [] expectedType = "array" ->
            {Str("not_an_array", 12), Whole(42), Bool(TRUE), Obj(<<>>)}
      [] expectedType = "object" ->
            {Str("not_an_object", 13), Whole(42), Bool(TRUE), Arr(<<>>)}
      [] OTHER -> {Str("wrong_type", 10)}

\* generateEncodingValue: the lengths of the eight attack strings
EncodingAttacks == {Str("encoding attack", n) : n \in {4, 3, 1, 9, 2, 12}}

generateEncodingValue(schema, type) ==
    IF type # "string" THEN generateBoundaryValue(schema, type)
    ELSE EncodingAttacks

\* generateInjectionValue: the lengths of the sixteen payloads
InjectionPayloads ==
    {Str("injection payload", n) :
        n \in {23, 11, 30, 29, 32, 17, 8, 9, 18, 79, 19, 36, 7, 6, 10}}

generateInjectionValue(schema, type) ==
    IF type # "string" THEN generateTypeConfusionValue(type)
    ELSE InjectionPayloads

\* generateMalformedValue
generateMalformedValue(schema, type) ==
    CASE type = "string" -> {Str("control characters", 6)}
      [] type \in {"number", "integer"} ->
            {Named("NaN"), Named("Infinity"), Named("-Infinity")}
      [] type = "array" -> {Circular("array")}
      [] type = "object" -> {Circular("object")}
      [] OTHER -> {Str("control characters", 3)}

\* resolveReference of the fuzzer (the same code as the generator's)
resolveReferenceOfFuzzer(root, ref) ==
    IF ref.prefix # "#/" THEN [found |-> FALSE, node |-> Null, error |-> "NotLocal"]
    ELSE LET w == Walk(root, ref.path)
         IN  [found |-> w.found, node |-> w.node,
              error |-> IF w.found THEN "none" ELSE "InvalidReference"]

Value(v) == [threw |-> FALSE, value |-> v]
Thrown(error) == [threw |-> TRUE, error |-> error]

\* fuzzValue: what it may return or throw.  `rooted` says whether the
\* rootSchema argument is given; `depth` counts the nested calls, and a call
\* deeper than the stack allows throws a RangeError.
RECURSIVE fuzzValue(_, _, _, _)
fuzzValue(schema, strategy, rooted, depth) ==
    IF Has(schema, "ref") /\ rooted
    THEN IF depth >= MaxDepth THEN {Thrown("RangeError")}
         ELSE LET r == resolveReferenceOfFuzzer(Document, schema.ref)
              IN  IF r.found THEN fuzzValue(r.node, strategy, rooted, depth + 1)
                  ELSE {Thrown(r.error)}
    ELSE LET type == TypeOf(schema)
             values ==
               CASE strategy = "boundary" -> generateBoundaryValue(schema, type)
                 [] strategy = "nulls" -> generateNullValue(type)
                 [] strategy = "empty" -> generateEmptyValue(type)
                 [] strategy = "overflow" -> generateOverflowValue(schema, type)
                 [] strategy = "type_confusion" -> generateTypeConfusionValue(type)
                 [] strategy = "encoding" -> generateEncodingValue(schema, type)
                 [] strategy = "injection" -> generateInjectionValue(schema, type)
                 [] strategy = "malformed" -> generateMalformedValue(schema, type)
                 [] OTHER -> generateBoundaryValue(schema, type)
         IN  {Value(v) : v \in values}

\* The schemas a parameter or a request body is fuzzed for
FuzzedSchemas == RootSchemas

NotFuzzed == [called |-> FALSE]

\* fuzzParameters, line 148: the value of one parameter; the document is not
\* handed to fuzzValue
FuzzParameter(schema, strategy) ==
    /\ ~fuzzArgs.called
    /\ fuzzArgs' = [called |-> TRUE, site |-> "parameter", schema |-> schema,
                    strategy |-> strategy]
    /\ fuzzResult' \in fuzzValue(schema, strategy, FALSE, 0)
    /\ UNCHANGED notFuzzValue

\* fuzzRequestBody, line 186: the data of the body
FuzzRequestBody(schema, strategy) ==
    /\ ~fuzzArgs.called
    /\ fuzzArgs' = [called |-> TRUE, site |-> "body", schema |-> schema,
                    strategy |-> strategy]
    /\ fuzzResult' \in fuzzValue(schema, strategy, TRUE, 0)
    /\ UNCHANGED notFuzzValue

FuzzValueIdle == fuzzArgs = NotFuzzed /\ fuzzResult = NotFuzzed

\* -------------------------------------------------------------------------
\* TestGenerator: the generators of primitive values
\* -------------------------------------------------------------------------
\* What fc.sample may draw from a range: its two lowest values and its highest.
SampleSpan == 1
SampleRange(lo, hi) == {n \in lo..hi : n <= lo + SampleSpan \/ n = hi}

\* fc.string(constraints): a string of any length within the constraints
\* (when maxLength is not constrained the samples are short)
StringSamples(schema) ==
    LET lo == IF Has(schema, "minLength") THEN schema.minLength ELSE 0
        hi == IF Has(schema, "maxLength") THEN Min(schema.maxLength, 1000)
              ELSE lo + SampleSpan
    IN  {Str("sample", n) : n \in SampleRange(lo, hi)}

\* fc.string(constraints), lines 258-261 and 296: a minimum above the
\* (capped) maximum is rejected with an exception
StringLengthCap == 1000
StringConstraintsRejected(schema) ==
    /\ Has(schema, "minLength")
    /\ Has(schema, "maxLength")
    /\ schema.minLength > Min(schema.maxLength, StringLengthCap)

\* String.prototype.includes on the patterns of the model
Includes(pattern, part) ==
    \/ part = "[0-9]" /\ pattern = "^[0-9]{2}$"
    \/ part = "[a-z]" /\ pattern = "^[a-z]*$"

\* generateFromPattern
generateFromPattern(pattern) ==
    IF pattern = "^[a-zA-Z0-9]+$" THEN Str("abc123", 6)
    ELSE IF Includes(pattern, "[0-9]") THEN Str("123", 3)
    ELSE IF Includes(pattern, "[a-z]") THEN Str("abc", 3)
    ELSE Str("pattern_match", 13)

\* generateString, lines 271-287: the formats that return at once
KnownFormats == {"email", "uuid", "date", "date-time", "uri"}

FormatValues(format, valid) ==
    CASE format = "email" ->
            IF valid THEN {Str("a@b.cd", 6), Str("someone@example.com", 19)}
            ELSE {Str("invalid-email", 13)}
      [] format = "uuid" ->
            IF valid THEN {Str("uuid", 36)} ELSE {Str("invalid-uuid", 12)}
      [] format = "date" ->
            IF valid THEN {Str("YYYY-MM-DD", 10)} ELSE {Str("invalid-date", 12)}
      [] format = "date-time" ->
            IF valid THEN {Str("YYYY-MM-DDTHH:mm:ss.sssZ", 24)}
            ELSE {Str("invalid-datetime", 16)}
      [] format = "uri" ->
            IF valid THEN {Str("https://example.com", 19)}
            ELSE {Str("invalid-uri", 11)}

\* generateString: does it throw, and what may it return
generateStringThrows(schema, valid) ==
    /\ ~Has(schema, "enum")
    /\ ~(Has(schema, "format") /\ schema.format \in KnownFormats)
    /\ ~(Has(schema, "pattern") /\ valid)
    /\ StringConstraintsRejected(schema)

generateString(schema, valid) ==
    IF Has(schema, "enum")
    THEN IF valid
         THEN {Str(schema.enum[k], 3) : k \in DOMAIN schema.enum}
         ELSE StringSamples([type |-> "string"])
    ELSE IF Has(schema, "format") /\ schema.format \in KnownFormats
    THEN FormatValues(schema.format, valid)
    ELSE IF Has(schema, "pattern") /\ valid
    THEN {generateFromPattern(schema.pattern)}
    ELSE {IF ~valid /\ s.len > 0 /\ Has(schema, "maxLength")
          THEN Str("x", schema.maxLength + 10)
          ELSE IF s.len > 0 THEN s ELSE Str("test", 4)
            : s \in StringSamples(schema)}

\* fc.integer(constraints) / fc.float(constraints): integers, and for a float
\* a value between two of them; a minimum above the maximum is rejected
NumberConstraintsRejected(schema) ==
    Has(schema, "minimum") /\ Has(schema, "maximum")
      /\ schema.minimum > schema.maximum

NumberSamples(schema) ==
    LET lo == IF Has(schema, "minimum") THEN schema.minimum
              ELSE IF Has(schema, "maximum") THEN schema.maximum - SampleSpan
              ELSE 0
        hi == IF Has(schema, "maximum") THEN schema.maximum ELSE lo + SampleSpan
        isInteger == Has(schema, "type") /\ schema.type = "integer"
    IN  {Whole(n) : n \in SampleRange(lo, hi)}
          \cup (IF ~isInteger /\ lo < hi THEN {Num(10 * lo + 5)} ELSE {})

\* generateNumber: does it throw, and what may it return
generateNumberThrows(schema, valid) == NumberConstraintsRejected(schema)

\* (a variant that looks at the minimum before the maximum)
generateNumberMinimumFirst(schema, valid) ==
    LET isInteger == Has(schema, "type") /\ schema.type = "integer"
        eps == IF isInteger THEN 10 ELSE 1
    IN  IF valid THEN NumberSamples(schema)
        ELSE IF Has(schema, "minimum") THEN {Num(10 * schema.minimum - eps)}
        ELSE IF Has(schema, "maximum") THEN {Num(10 * schema.maximum + eps)}
        ELSE {Str("not-a-number", 12)}
generateNumber(schema, valid) ==
    LET isInteger == Has(schema, "type") /\ schema.type = "integer"
        eps == IF isInteger THEN 10 ELSE 1
    IN  IF valid THEN NumberSamples(schema)
        ELSE IF Has(schema, "maximum") THEN {Num(10 * schema.maximum + eps)}
        ELSE IF Has(schema, "minimum") THEN {Num(10 * schema.minimum - eps)}
        ELSE {Str("not-a-number", 12)}

\* generateBoolean
generateBoolean(schema, valid) ==
    IF valid THEN {Bool(TRUE), Bool(FALSE)} ELSE {Str("not-a-boolean", 13)}

\* generateFallbackValue
generateFallbackValue(type, valid) ==
    CASE type = "string" -> IF valid THEN Str("test", 4) ELSE Null
      [] type \in {"number", "integer"} -> IF valid THEN Whole(42) ELSE Str("invalid", 7)
      [] type = "boolean" -> IF valid THEN Bool(TRUE) ELSE Str("invalid", 7)
      [] type = "array" -> IF valid THEN Arr(<<>>) ELSE Str("invalid", 7)
      [] type = "object" -> IF valid THEN Obj(<<>>) ELSE Str("invalid", 7)
      [] OTHER -> IF valid THEN Str("unknown", 7) ELSE Null

\* -------------------------------------------------------------------------
\* TestGenerator: generateValueForSchema, generateObject and generateArray
\* -------------------------------------------------------------------------
\* A call of generateValueForSchema that waits for a nested call: one that
\* follows a reference (lines 222-225, outside the try block), or one that
\* runs generateObject or generateArray inside the try block of lines 230-249.
Frame(fn, schema, valid, length) ==
    [fn |-> fn, schema |-> schema, valid |-> valid, acc |-> <<>>, idx |-> 0,
     length |-> length, pending |-> ""]

Top == stack[Len(stack)]
Pop == SubSeq(stack, 1, Len(stack) - 1)
ReplaceTop(frame) == Append(Pop, frame)

NoCall == [type |-> "none"]
Nothing == [fn |-> "none", schema |-> NoCall, valid |-> TRUE]
By(fn, schema, valid) == [fn |-> fn, schema |-> schema, valid |-> valid]

PropertiesOf(schema) ==
    IF Has(schema, "properties") THEN schema.properties ELSE <<>>
\* generateArray, lines 371-375: Math.floor(Math.random() * n) + minItems
ArrayLengths(schema) ==
    LET minItems == IF Truthful(schema, "minItems") THEN schema.minItems ELSE 0
        maxItems == Min(IF Truthful(schema, "maxItems") THEN schema.maxItems
                        ELSE ArrayCap, ArrayCap)
        n == maxItems - minItems + 1
    IN  IF n > 0 THEN minItems..maxItems ELSE (minItems + n)..minItems

ItemsOf(schema) == IF Has(schema, "items") THEN schema.items ELSE [type |-> "string"]

\* generateForEndpoint, lines 65-73, then the first generateValueForSchema
\* call of generateParameters / generateRequestBody for one case
Generate(pathFound, operationFound, schema, valid) ==
    /\ genPc = "idle"
    /\ IF pathFound /\ operationFound
       THEN /\ genPc' = "call"
            /\ callSchema' = schema
            /\ callValid' = valid
            /\ rootSchema' = schema
            /\ rootValid' = valid
            /\ UNCHANGED genError
       ELSE /\ genPc' = "threw"
            /\ genError' = IF pathFound THEN "OperationNotFound" ELSE "PathNotFound"
            /\ UNCHANGED <<callSchema, callValid, rootSchema, rootValid>>
    /\ UNCHANGED <<stack, retValue, returned>>
    /\ UNCHANGED notGen
    /\ UNCHANGED <<seed, previous>>

\* generateForEndpoint is called once more on the same generator, whose
\* options (the seed among them) are what the constructor left; what the
\* call before produced is kept aside.  No line of the generator reads
\* this.options.seed: fc.sample is called without a seed and Math.random
\* has none.
NotGenerated == [called |-> FALSE]

GenerateAgain(schema, valid) ==
    /\ genPc = "done"
    /\ previous' = [called |-> TRUE, schema |-> rootSchema, valid |-> rootValid,
                    seed |-> seed, value |-> retValue]
    /\ genPc' = "call"
    /\ callSchema' = schema
    /\ callValid' = valid
    /\ rootSchema' = schema
    /\ rootValid' = valid
    /\ retValue' = Null
    /\ returned' = Nothing
    /\ UNCHANGED <<stack, genError, seed>>
    /\ UNCHANGED notGen

\* the call stack of the runtime is exhausted: a RangeError is thrown
StackOverflow ==
    /\ genPc = "call"
    /\ Len(stack) >= MaxDepth
    /\ genPc' = "throw"
    /\ genError' = "RangeError"
    /\ UNCHANGED <<stack, callSchema, callValid, retValue, returned, rootSchema,
                   rootValid>>
    /\ UNCHANGED notGen
    /\ UNCHANGED <<seed, previous>>

\* generateValueForSchema, lines 222-225: the reference is resolved and the
\* function calls itself on what it resolves to
FollowReference ==
    /\ genPc = "call"
    /\ Len(stack) < MaxDepth
    /\ Has(callSchema, "ref")
    /\ LET r == resolveReference(Document, callSchema.ref)
       IN  IF r.found
           THEN /\ stack' = Append(stack, Frame("ref", callSchema, callValid, 0))
                /\ callSchema' = r.node
                /\ UNCHANGED <<genPc, genError>>
           ELSE /\ genPc' = "throw"
                /\ genError' = r.error
                /\ UNCHANGED <<stack, callSchema>>
    /\ UNCHANGED <<callValid, retValue, returned, rootSchema, rootValid>>
    /\ UNCHANGED notGen
    /\ UNCHANGED <<seed, previous>>

\* generateValueForSchema, lines 231-245, for the types generated at once; a
\* generator that throws is caught by lines 246-249 of the same call, which
\* returns the fallback value
GeneratePrimitive ==
    /\ genPc = "call"
    /\ Len(stack) < MaxDepth
    /\ ~Has(callSchema, "ref")
    /\ TypeOf(callSchema) \notin {"array", "object"}
    /\ LET type == TypeOf(callSchema)
           throws == CASE type \in {"number", "integer"} ->
                              generateNumberThrows(callSchema, callValid)
                        [] type = "boolean" -> FALSE
                        [] OTHER -> generateStringThrows(callSchema, callValid)
           values == CASE type \in {"number", "integer"} ->
                              generateNumber(callSchema, callValid)
                        [] type = "boolean" -> generateBoolean(callSchema, callValid)
                        [] OTHER -> generateString(callSchema, callValid)
       IN  IF throws
           THEN /\ retValue' = generateFallbackValue(type, callValid)
                /\ returned' = By("generateFallbackValue", callSchema, callValid)
           ELSE /\ \E value \in values : retValue' = value
                /\ returned' = By(type, callSchema, callValid)
    /\ genPc' = "return"
    /\ UNCHANGED <<stack, callSchema, callValid, genError, rootSchema, rootValid>>
    /\ UNCHANGED notGen
    /\ UNCHANGED <<seed, previous>>

\* generateValueForSchema, lines 239-242: generateArray (which draws its
\* length, lines 374-375) or generateObject is entered
EnterContainer ==
    /\ genPc = "call"
    /\ Len(stack) < MaxDepth
    /\ ~Has(callSchema, "ref")
    /\ TypeOf(callSchema) \in {"array", "object"}
    /\ IF TypeOf(callSchema) = "array"
       THEN \E length \in ArrayLengths(callSchema) :
               stack' = Append(stack, Frame("array", callSchema, callValid, length))
       ELSE stack' = Append(stack, Frame("object", callSchema, callValid, 0))
    /\ genPc' = "resume"
    /\ UNCHANGED <<callSchema, callValid, retValue, returned, genError, rootSchema,
                   rootValid>>
    /\ UNCHANGED notGen
    /\ UNCHANGED <<seed, previous>>

\* generateObject, lines 406-417: the next property is generated, or left out
\* when it is optional and Math.random() says so
ObjectProperty ==
    /\ genPc = "resume"
    /\ Top.fn = "object"
    /\ Top.idx < Len(PropertiesOf(Top.schema))
    /\ LET prop == PropertiesOf(Top.schema)[Top.idx + 1]
           isRequired == Has(Top.schema, "required")
                           /\ prop.name \in Range(Top.schema.required)
       IN  \/ /\ genPc' = "call"
              /\ callSchema' = prop.schema
              /\ callValid' = Top.valid
              /\ stack' = ReplaceTop([Top EXCEPT !.pending = prop.name])
           \/ /\ ~isRequired
              /\ stack' = ReplaceTop([Top EXCEPT !.idx = Top.idx + 1])
              /\ UNCHANGED <<genPc, callSchema, callValid>>
    /\ UNCHANGED <<retValue, returned, genError, rootSchema, rootValid>>
    /\ UNCHANGED notGen
    /\ UNCHANGED <<seed, previous>>

\* generateObject, lines 420-427: in invalid mode one entry of the required
\* list is drawn and deleted; the object is returned
DropRequired(frame) ==
    IF ~frame.valid /\ Has(frame.schema, "required")
         /\ Len(frame.schema.required) > 0
    THEN {Obj(Delete(frame.acc, name)) : name \in Range(frame.schema.required)}
    ELSE {Obj(frame.acc)}

ObjectReturns ==
    /\ genPc = "resume"
    /\ Top.fn = "object"
    /\ Top.idx = Len(PropertiesOf(Top.schema))
    /\ \E value \in DropRequired(Top) : retValue' = value
    /\ returned' = By("generateObject", Top.schema, Top.valid)
    /\ stack' = Pop
    /\ genPc' = "return"
    /\ UNCHANGED <<callSchema, callValid, genError, rootSchema, rootValid>>
    /\ UNCHANGED notGen
    /\ UNCHANGED <<seed, previous>>

\* generateArray, lines 378-389: the next item of the drawn length, then in
\* invalid mode valid items while the array is not longer than maxItems
ArrayNeedsItem(frame) == frame.idx < frame.length
ArrayNeedsExtra(frame) ==
    /\ ~ArrayNeedsItem(frame)
    /\ ~frame.valid
    /\ Has(frame.schema, "maxItems")
    /\ Len(frame.acc) <= frame.schema.maxItems

ArrayItem ==
    /\ genPc = "resume"
    /\ Top.fn = "array"
    /\ ArrayNeedsItem(Top) \/ ArrayNeedsExtra(Top)
    /\ genPc' = "call"
    /\ callSchema' = ItemsOf(Top.schema)
    /\ callValid' = IF ArrayNeedsItem(Top) THEN Top.valid ELSE TRUE
    /\ UNCHANGED <<stack, retValue, returned, genError, rootSchema, rootValid>>
    /\ UNCHANGED notGen
    /\ UNCHANGED <<seed, previous>>

\* generateArray, line 391
ArrayReturns ==
    /\ genPc = "resume"
    /\ Top.fn = "array"
    /\ ~ArrayNeedsItem(Top) /\ ~ArrayNeedsExtra(Top)
    /\ retValue' = Arr(Top.acc)
    /\ returned' = By("generateArray", Top.schema, Top.valid)
    /\ stack' = Pop
    /\ genPc' = "return"
    /\ UNCHANGED <<callSchema, callValid, genError, rootSchema, rootValid>>
    /\ UNCHANGED notGen
    /\ UNCHANGED <<seed, previous>>

\* a nested call returns to its caller: line 224 passes the value on, line 411
\* stores it under the property's name, lines 379 and 385 push it
Return ==
    /\ genPc = "return"
    /\ IF Len(stack) = 0
       THEN /\ genPc' = "done"
            /\ UNCHANGED stack
       ELSE CASE Top.fn = "ref" ->
                    /\ stack' = Pop
                    /\ UNCHANGED genPc
              [] Top.fn = "object" ->
                    /\ stack' = ReplaceTop([Top EXCEPT
                                   !.acc = Put(Top.acc, Top.pending, retValue),
                                   !.idx = Top.idx + 1])
                    /\ genPc' = "resume"
              [] Top.fn = "array" ->
                    /\ stack' = ReplaceTop([Top EXCEPT
                                   !.acc = Append(Top.acc, retValue),
                                   !.idx = IF ArrayNeedsItem(Top) THEN Top.idx + 1
                                           ELSE Top.idx])
                    /\ genPc' = "resume"
    /\ UNCHANGED <<callSchema, callValid, retValue, returned, genError, rootSchema,
                   rootValid>>
    /\ UNCHANGED notGen
    /\ UNCHANGED <<seed, previous>>

\* an error unwinds: a call that followed a reference lets it through, a call
\* inside generateObject or generateArray catches it (lines 246-249) and
\* returns the fallback value; with no caller left generateForEndpoint rejects
Throw ==
    /\ genPc = "throw"
    /\ IF Len(stack) = 0
       THEN /\ genPc' = "threw"
            /\ UNCHANGED <<stack, retValue, returned, genError>>
       ELSE IF Top.fn = "ref"
            THEN /\ stack' = Pop
                 /\ UNCHANGED <<genPc, retValue, returned, genError>>
            ELSE /\ stack' = Pop
                 /\ genPc' = "return"
                 /\ retValue' = generateFallbackValue(TypeOf(Top.schema), Top.valid)
                 /\ returned' = By("generateFallbackValue", Top.schema, Top.valid)
                 /\ genError' = "none"
    /\ UNCHANGED <<callSchema, callValid, rootSchema, rootValid>>
    /\ UNCHANGED notGen
    /\ UNCHANGED <<seed, previous>>

GenAtRest ==
    /\ previous = NotGenerated
    /\ genPc = "idle"
    /\ stack = <<>>
    /\ callSchema = NoCall
    /\ callValid = TRUE
    /\ retValue = Null
    /\ returned = Nothing
    /\ genError = "none"
    /\ rootSchema = NoCall
    /\ rootValid = TRUE

GenIdle == seed = 1 /\ GenAtRest

\* -------------------------------------------------------------------------
\* The specifications
\* -------------------------------------------------------------------------
\* the constructor: any retry count, and response validation switched off
\* for one of them
ExecutorOptions ==
    {[retries |-> r, validateResponses |-> TRUE] : r \in (0 - 1)..MaxRetries}
      \cup {[retries |-> 1, validateResponses |-> FALSE]}

InitRun ==
    /\ \E options \in ExecutorOptions :
          /\ retries = options.retries
          /\ validateResponses = options.validateResponses
    /\ RunAtRest
    /\ FuzzIdle
    /\ FuzzValueIdle
    /\ GenIdle
    /\ ValidateIdle
    /\ FacadeIdle
    /\ RequestIdle
    /\ SuiteIdle

SpecRun == InitRun /\ [][NextRun]_vars

\* a run during which the caller may ask to cancel
InitCancel ==
    /\ retries \in {0, 1}
    /\ validateResponses = TRUE
    /\ RunAtRest
    /\ FuzzIdle
    /\ FuzzValueIdle
    /\ GenIdle
    /\ ValidateIdle
    /\ FacadeIdle
    /\ RequestIdle
    /\ SuiteIdle

NextCancel ==
    \/ NextRun
    \/ CancelRequested

SpecCancel == InitCancel /\ [][NextCancel]_vars

\* validateResponse on its own
InitValidate ==
    /\ validateResponses \in BOOLEAN
    /\ retries = 0
    /\ RunAtRest
    /\ FuzzIdle
    /\ FuzzValueIdle
    /\ GenIdle
    /\ ValidateIdle
    /\ FacadeIdle
    /\ RequestIdle
    /\ SuiteIdle

NextValidate ==
    \E response \in ValidatedResponses, expectedOutcome \in ValidatedOutcomes,
       schema \in BOOLEAN :
       ValidateResponse(response, [id |-> 0, expectedOutcome |-> expectedOutcome],
                        schema)

SpecValidate == InitValidate /\ [][NextValidate]_vars

\* the constructor: an unknown level falls back to "medium" (line 62)
FuzzerOptions ==
    /\ aggressiveness \in Levels \cup {"extreme"}
    /\ maxFuzzTests \in {DefaultMaxFuzzTests} \cup 1..MaxFuzzN

InitFuzz ==
    /\ fuzzPc = "idle"
    /\ FuzzerOptions
    /\ FuzzAtRest
    /\ FuzzValueIdle
    /\ RunIdle
    /\ GenIdle
    /\ ValidateIdle
    /\ FacadeIdle
    /\ RequestIdle
    /\ SuiteIdle

NextFuzz ==
    \/ \E pathFound \in BOOLEAN, operationFound \in BOOLEAN,
          endpoint \in Range(AllEndpoints), optionsMaxTests \in 0..MaxFuzzN :
          GenerateFuzzTests(pathFound, operationFound, endpoint, optionsMaxTests)
    \/ GenerateStrategy
    \/ ReturnFuzzTests

SpecFuzz == InitFuzz /\ [][NextFuzz]_vars

\* fuzzValue, as fuzzParameters and fuzzRequestBody call it
InitFuzzValue ==
    /\ FuzzValueIdle
    /\ FuzzIdle
    /\ RunIdle
    /\ GenIdle
    /\ ValidateIdle
    /\ FacadeIdle
    /\ RequestIdle
    /\ SuiteIdle

NextFuzzValue ==
    \/ \E schema \in FuzzedSchemas, strategy \in Strategies :
          FuzzParameter(schema, strategy)
    \/ \E schema \in FuzzedSchemas, strategy \in Strategies :
          FuzzRequestBody(schema, strategy)

SpecFuzzValue == InitFuzzValue /\ [][NextFuzzValue]_vars

InitGen ==
    /\ GenIdle
    /\ RunIdle
    /\ FuzzIdle
    /\ FuzzValueIdle
    /\ ValidateIdle
    /\ FacadeIdle
    /\ RequestIdle
    /\ SuiteIdle

NextGen ==
    \/ \E pathFound \in BOOLEAN, operationFound \in BOOLEAN,
          schema \in RootSchemas, valid \in BOOLEAN :
          Generate(pathFound, operationFound, schema, valid)
    \/ StackOverflow
    \/ FollowReference
    \/ GeneratePrimitive
    \/ EnterContainer
    \/ ObjectProperty
    \/ ObjectReturns
    \/ ArrayItem
    \/ ArrayReturns
    \/ Return
    \/ Throw

SpecGen == InitGen /\ [][NextGen]_vars

\* generation asked for twice of one generator
MaxSeed == 2
ReplaySchemas ==
    {LocalRef("Pet"), LocalRef("Tags"), LocalRef("Flag"), LocalRef("Broken"),
     LocalRef("Ping"), [type |-> "integer"], [type |-> "string", maxLength |-> 3]}

InitReplay ==
    /\ seed \in 1..MaxSeed
    /\ GenAtRest
    /\ RunIdle
    /\ FuzzIdle
    /\ FuzzValueIdle
    /\ ValidateIdle
    /\ FacadeIdle
    /\ RequestIdle
    /\ SuiteIdle

NextReplay ==
    \/ \E pathFound \in BOOLEAN, operationFound \in BOOLEAN,
          schema \in ReplaySchemas, valid \in BOOLEAN :
          Generate(pathFound, operationFound, schema, valid)
    \/ \E schema \in ReplaySchemas, valid \in BOOLEAN : GenerateAgain(schema, valid)
    \/ StackOverflow
    \/ FollowReference
    \/ GeneratePrimitive
    \/ EnterContainer
    \/ ObjectProperty
    \/ ObjectReturns
    \/ ArrayItem
    \/ ArrayReturns
    \/ Return
    \/ Throw

SpecReplay == InitReplay /\ [][NextReplay]_vars

\* The cases of one run of the facade (index.ts): runFromSchema has the
\* generator make them with generateTests, fuzzEndpoint has the fuzzer make
\* them with generateFuzzTests.
MaxSuiteTests == 3

GeneratorOptions ==
    /\ maxTests \in {DefaultMaxTests} \cup 1..MaxSuiteTests
    /\ generateInvalidData \in BOOLEAN

InitSuite ==
    /\ \/ /\ suitePc = "idle"
          /\ GeneratorOptions
          /\ fuzzPc = "unused"
          /\ aggressiveness = "medium"
          /\ maxFuzzTests = DefaultMaxFuzzTests
       \/ /\ fuzzPc = "idle"
          /\ FuzzerOptions
          /\ suitePc = "unused"
          /\ maxTests = DefaultMaxTests
          /\ generateInvalidData = TRUE
    /\ SuiteAtRest
    /\ FuzzAtRest
    /\ FuzzValueIdle
    /\ RunIdle
    /\ GenIdle
    /\ ValidateIdle
    /\ FacadeIdle
    /\ RequestIdle

NextSuite ==
    \/ \E document \in Documents : GenerateTests(document)
    \/ \E throws \in BOOLEAN : GenerateForEndpoint(throws)
    \/ ReturnTests
    \/ NextFuzz

SpecSuite == InitSuite /\ [][NextSuite]_vars

\* -------------------------------------------------------------------------
\* Properties of the executor (checked under SpecRun)
\* -------------------------------------------------------------------------
LastResult == results[Len(results)]

\* C1: runTests returns one result per case, in case order (the k-th result
\* carries the k-th case's id); a case whose request failed on every attempt
\* gets status "error" in its own result; the run goes on to the end of the
\* list, and a result once appended is never changed by a later case.
C1_PerCaseIsolationStep ==
    /\ Len(results') <= Len(testCases')
    /\ \A k \in 1..Len(results') : results'[k].id = testCases'[k].id
    /\ (pc' = "done") => (Len(results') = Len(testCases'))
    /\ \A k \in 1..Len(results) : results'[k] = results[k]
    /\ (Len(results') > Len(results) /\ outcome' = "failed")
         => results'[Len(results')].status = "error"
C1_PerCaseIsolation == [][C1_PerCaseIsolationStep]_vars

C1_Witness ==
    /\ pc = "done"
    /\ Len(results) = 3
    /\ results[1].status = "passed"
    /\ results[2].status = "error" /\ results[2].error = "transport"
    /\ results[3].status = "failed"

\* C2: at most one request is in flight, and while the request of case i
\* (0-based) is in flight or backing off the result list holds exactly the
\* results of cases 0..i-1.
C2_SequentialDispatch ==
    /\ inFlight \in {0, 1}
    /\ (inFlight = 1) => (pc = "request" /\ Len(results) = i)
    /\ (pc \in {"request", "backoff"}) => (Len(results) = i)
    /\ (pc \in {"pace", "done"} /\ Len(testCases) > 0) => (Len(results) = i + 1)

C2_Witness == inFlight = 1 /\ i = 2 /\ Len(results) = 2

\* C3: executeRequest issues at most retries+1 requests; after a response no
\* further request is issued for the case (the requests issued are the failed
\* ones plus the answered one); it throws only when all retries+1 attempts
\* failed, and what it throws is the error of the last attempt.
C3_RetryBudget ==
    /\ issued <= retries + 1
    /\ (outcome = "response")
         => (inFlight = 0 /\ pc \in {"pace", "done"} /\ issued = lastError + 1)
    /\ (outcome = "failed")
         => /\ issued = retries + 1
            /\ lastError = issued
            /\ LastResult.errorOf = lastError
            /\ LastResult.status = "error"

C3_Witness == retries = 3 /\ outcome = "response" /\ issued = 3

\* C4: the wait after the k-th failed attempt (k = 0, 1, ...) is 1000, 2000,
\* 4000, 5000, 5000, ... ms: non-decreasing, at most 5000, and none after the
\* final failed attempt (retries waits for retries+1 failures).
ExpectedWait(k) ==
    IF k = 0 THEN 1000 ELSE IF k = 1 THEN 2000 ELSE IF k = 2 THEN 4000 ELSE 5000

C4_BackoffSchedule ==
    /\ \A k \in 1..Len(waits) : waits[k] = ExpectedWait(k - 1) /\ waits[k] <= 5000
    /\ \A k \in 1..(Len(waits) - 1) : waits[k] <= waits[k + 1]
    /\ (pc = "backoff") => (Len(waits) = lastError)
    /\ (pc = "request") => (Len(waits) = lastError)
    /\ (outcome = "failed" /\ retries >= 0)
         => (Len(waits) = retries /\ lastError = retries + 1)

C4_Witness == outcome = "failed" /\ waits = <<1000, 2000, 4000, 5000, 5000>>

\* C5: every HTTP response is a normal outcome: the result of a case that
\* got a response has status "passed" or "failed", never "error".
C5_ResponseNeverError ==
    (outcome = "response") => (LastResult.status \in {"passed", "failed"})

\* -------------------------------------------------------------------------
\* Properties of the fuzz catalog (checked under SpecFuzz)
\* -------------------------------------------------------------------------
StrategiesOf(cases) == {cases[k].strategy : k \in 1..Len(cases)}
ActiveStrategies == {fuzzStrategies[k] : k \in 1..Len(fuzzStrategies)}

\* C6: generateFuzzTests returns at most numTests cases and, when numTests is
\* at least the number of active strategies, every active strategy is the
\* strategy of at least one returned case.
C6_EveryStrategyCovered ==
    (fuzzPc = "done")
      => /\ Len(fuzzTests) <= numTests
         /\ (numTests >= Len(fuzzStrategies))
               => (StrategiesOf(fuzzTests) = ActiveStrategies)

\* -------------------------------------------------------------------------
\* Properties of the value synthesizer (checked under SpecGen)
\* -------------------------------------------------------------------------
\* C7: generation is aborted by a thrown error only when the requested path
\* or operation is missing from the schema.
C7_OnlyMissingOperationAborts ==
    (genPc = "threw") => (genError \in {"PathNotFound", "OperationNotFound"})

\* C8: generation terminates on reference cycles: a reference that is already
\* being followed by the current generation call is not followed again, and
\* generation never exhausts the call stack.
RefFrames == {k \in 1..Len(stack) : stack[k].fn = "ref"}

C8_NoReferenceFollowedTwice ==
    /\ \A a \in RefFrames, b \in RefFrames :
          (a # b) => (stack[a].schema.ref # stack[b].schema.ref)
    /\ genError # "RangeError"

\* The constraint dimensions a value violates, counted over the whole value:
\* its type, each bound it breaks, a missing required property, and the
\* violations of the values nested in it.
B2N(b) == IF b THEN 1 ELSE 0

TypeMatches(type, value) ==
    CASE type \in {"number", "integer"} ->
              value.t = "number" /\ (type = "integer" => value.tenths % 10 = 0)
      [] type \in {"string", "boolean", "array", "object"} -> value.t = type
      [] OTHER -> value.t = "string"

RECURSIVE Violations(_, _), NestedViolations(_, _)
Violations(schema, value) ==
    IF Has(schema, "ref")
    THEN LET r == resolveReference(Document, schema.ref)
         IN  IF r.found THEN Violations(r.node, value) ELSE 0
    ELSE LET type == TypeOf(schema)
         IN  IF ~TypeMatches(type, value) THEN 1
             ELSE CASE type \in {"number", "integer"} ->
                         B2N(Has(schema, "maximum") /\ value.tenths > 10 * schema.maximum)
                           + B2N(Has(schema, "minimum") /\ value.tenths < 10 * schema.minimum)
                    [] type = "string" ->
                         B2N(Has(schema, "maxLength") /\ value.len > schema.maxLength)
                           + B2N(Has(schema, "minLength") /\ value.len < schema.minLength)
                           + B2N(Has(schema, "enum") /\ value.text \notin Range(schema.enum))
                    [] type = "array" ->
                         B2N(Has(schema, "maxItems") /\ Len(value.items) > schema.maxItems)
                           + B2N(Has(schema, "minItems") /\ Len(value.items) < schema.minItems)
                           + NestedViolations(
                               [k \in DOMAIN value.items |-> ItemsOf(schema)], value.items)
                    [] type = "object" ->
                         LET present == SelectSeq(PropertiesOf(schema),
                                           LAMBDA p : p.name \in DOMAIN value.fields)
                         IN  B2N(Has(schema, "required")
                                   /\ \E name \in Range(schema.required) :
                                         name \notin DOMAIN value.fields)
                               + NestedViolations(
                                   [k \in DOMAIN present |-> present[k].schema],
                                   [k \in DOMAIN present |-> value.fields[present[k].name]])
                    [] OTHER -> 0

NestedViolations(schemas, values) ==
    IF schemas = <<>> THEN 0
    ELSE Violations(Head(schemas), Head(values))
           + NestedViolations(Tail(schemas), Tail(values))

\* C9: a value generated in invalid mode violates exactly one constraint
\* dimension of its schema, nested schemas included.
C9_ExactlyOneViolation ==
    (genPc = "done" /\ ~rootValid) => (Violations(rootSchema, retValue) = 1)

\* C10: for an object schema with a non-empty required list, the object that
\* invalid-mode generateObject returns lacks exactly one of the listed
\* properties and holds every other one.
MissingRequired(schema, value) ==
    {name \in Range(schema.required) : name \notin DOMAIN value.fields}

C10_ExactlyOneRequiredDropped ==
    (/\ genPc = "return"
     /\ returned.fn = "generateObject"
     /\ ~returned.valid
     /\ Has(returned.schema, "required")
     /\ Len(returned.schema.required) > 0)
      => (Cardinality(MissingRequired(returned.schema, retValue)) = 1)

\* -------------------------------------------------------------------------
\* Properties of repeated generation (checked under SpecReplay)
\* -------------------------------------------------------------------------
\* C11: two generation calls with the same schema and the same configured
\* seed produce the same valid-mode value.
C11_SameSeedSameValue ==
    (/\ genPc = "done"
     /\ previous.called
     /\ rootValid
     /\ previous.valid
     /\ previous.seed = seed
     /\ previous.schema = rootSchema)
      => (retValue = previous.value)

\* -------------------------------------------------------------------------
\* Properties of response validation (checked under SpecValidate)
\* -------------------------------------------------------------------------
ClaimedStatuses(expectedOutcome) ==
    CASE expectedOutcome.kind = "success" -> {200, 201, 202, 204}
      [] expectedOutcome.kind = "client_error" -> {400, 401, 403, 404, 422}
      [] expectedOutcome.kind = "server_error" -> {500, 501, 502, 503}
      [] expectedOutcome.kind = "literal" -> {expectedOutcome.code}

StatusCheck == validation.validations[1]

\* C12: the status check passes exactly when the response status belongs to
\* the set expectedOutcome stands for: success -> {200,201,202,204},
\* client_error -> {400,401,403,404,422}, server_error -> {500,501,502,503},
\* a number -> that status only.
C12_StatusSets ==
    (checked.called
       /\ checked.testCase.expectedOutcome.kind
             \in {"success", "client_error", "server_error", "literal"})
      => /\ StatusCheck.type = "status_code"
         /\ StatusCheck.valid
               <=> (checked.response.status
                      \in ClaimedStatuses(checked.testCase.expectedOutcome))

C12_Witness ==
    /\ checked.called
    /\ checked.response.status = 404
    /\ checked.testCase.expectedOutcome = Outcome("client_error")
    /\ StatusCheck.valid

\* C13: the valid flag of validateResponse is the conjunction of the status
\* check, the schema check when it is enabled, and the header check; the
\* message is the messages of the failing checks joined with "; " in the
\* order status, schema, headers, and it is "All validations passed" exactly
\* when no check fails.
C13_VerdictAndMessage ==
    checked.called
      => LET response == checked.response
             testCase == checked.testCase
             enabled == validateResponses /\ checked.schema
             statusCheck == validateStatusCode(response, testCase)
             schemaCheck == validateResponseSchema(response, testCase)
             headerCheck == validateResponseHeaders(response)
             allPass == /\ statusCheck.valid
                        /\ (enabled => schemaCheck.valid)
                        /\ headerCheck.valid
             failures ==
                 (IF statusCheck.valid THEN <<>> ELSE <<statusCheck.message>>)
                   \o (IF enabled /\ ~schemaCheck.valid
                       THEN <<schemaCheck.message>> ELSE <<>>)
                   \o (IF headerCheck.valid THEN <<>> ELSE <<headerCheck.message>>)
         IN  /\ validation.valid <=> allPass
             /\ (validation.message = <<"All validations passed">>) <=> allPass
             /\ ~allPass => (validation.message = Join(failures, "; "))
             /\ Len(validation.validations) = IF enabled THEN 3 ELSE 2

C13_Witness ==
    /\ checked.called
    /\ Len(validation.validations) = 3
    /\ ~validation.validations[1].valid
    /\ validation.validations[2].valid
    /\ ~validation.validations[3].valid
    /\ ~validation.valid
    /\ "; " \in Range(validation.message)

\* -------------------------------------------------------------------------
\* Properties of pacing and cancellation (SpecRun, SpecCancel)
\* -------------------------------------------------------------------------
\* C14: runTests waits 50 ms after each case but the last, whatever the
\* status of the case: a run of n >= 1 cases waits n-1 times, one of 0 or 1
\* cases never.
C14_PacedBetweenCases ==
    /\ \A k \in 1..Len(paces) : paces[k] = 50
    /\ Len(paces) = IF Len(results) = 0 THEN 0
                    ELSE Min(Len(results), Len(testCases) - 1)
    /\ (pc = "pace") => (Len(paces) = i + 1 /\ i + 1 < Len(testCases))
    /\ (pc = "done")
         => (Len(paces) = IF Len(testCases) = 0 THEN 0 ELSE Len(testCases) - 1)

C14_Witness ==
    /\ pc = "done"
    /\ Len(testCases) = 3
    /\ paces = <<50, 50>>
    /\ results[1].status = "error"
    /\ results[2].status = "failed"
    /\ results[3].status = "passed"

\* C15: after a cancel request issued while case i is executing, no later
\* case is started: the loop of runTests stays at case i.
C15_CancelHonoured == (cancelled # 0 - 1) => (i = cancelled)

\* -------------------------------------------------------------------------
\* Properties of fuzzValue (checked under SpecFuzzValue)
\* -------------------------------------------------------------------------
\* C16: a reference that is not a local pointer, or whose path is undefined
\* in the document, makes the generation of the value fail with an error.
C16_BrokenReferenceFails ==
    (/\ fuzzArgs.called
     /\ Has(fuzzArgs.schema, "ref")
     /\ ~resolveReferenceOfFuzzer(Document, fuzzArgs.schema.ref).found)
      => fuzzResult.threw

\* C19: for a string schema with maxLength = L the boundary strategy returns
\* a string of length L and the overflow strategy one that is longer than L,
\* of length 10 * L when L > 0.
C19_BoundaryAndOverflowLengths ==
    (/\ fuzzArgs.called
     /\ ~Has(fuzzArgs.schema, "ref")
     /\ TypeOf(fuzzArgs.schema) = "string"
     /\ Has(fuzzArgs.schema, "maxLength"))
      => LET L == fuzzArgs.schema.maxLength
         IN  /\ (fuzzArgs.strategy = "boundary")
                   => /\ ~fuzzResult.threw
                      /\ fuzzResult.value.t = "string"
                      /\ fuzzResult.value.len = L
             /\ (fuzzArgs.strategy = "overflow")
                   => /\ ~fuzzResult.threw
                      /\ fuzzResult.value.t = "string"
                      /\ fuzzResult.value.len > L
                      /\ (L > 0) => (fuzzResult.value.len = 10 * L)

C19_Witness ==
    /\ fuzzArgs.called
    /\ fuzzArgs.strategy = "overflow"
    /\ fuzzArgs.schema = [type |-> "string", maxLength |-> 3]
    /\ fuzzResult = Value(Str("A", 30))

\* -------------------------------------------------------------------------
\* Properties of the case ids (checked under SpecSuite)
\* -------------------------------------------------------------------------
DistinctIds(cases) ==
    \A a \in 1..Len(cases), b \in 1..Len(cases) :
        (a # b) => (cases[a].id # cases[b].id)

\* C17: the cases of one run have pairwise distinct ids, over all endpoints,
\* kinds and indices of generateTests and over all strategies and indices
\* of generateFuzzTests.
C17_DistinctIds == DistinctIds(suiteCases) /\ DistinctIds(fuzzTests)

C17_Witness ==
    /\ suitePc = "done"
    /\ Len(endpoints) = Len(AllEndpoints)
    /\ generateInvalidData
    /\ Len(suiteCases) > 2 * Len(AllEndpoints)

\* -------------------------------------------------------------------------
\* Properties of the primitive generators (checked under SpecGen)
\* -------------------------------------------------------------------------
\* C18: for a string schema with maxLength = L, whatever its other keywords,
\* generateString returns in valid mode a string of length at most L.
C18_ValidStringWithinMaxLength ==
    (/\ genPc = "return"
     /\ returned.fn = "string"
     /\ returned.valid
     /\ Has(returned.schema, "maxLength"))
      => (retValue.t = "string" /\ retValue.len <= returned.schema.maxLength)

C22_WithinMaxTests == Len(suiteCases) <= endpointIndex * maxTests

\* -------------------------------------------------------------------------
\* Properties of generateArray (checked under SpecGen)
\* -------------------------------------------------------------------------
\* C26: for an array schema with maxItems = K, generateArray returns in
\* invalid mode an array of exactly K + 1 items, whatever minItems is.
C26_InvalidArrayOneTooLong ==
    (/\ genPc = "return"
     /\ returned.fn = "generateArray"
     /\ ~returned.valid
     /\ Has(returned.schema, "maxItems"))
      => (Len(retValue.items) = returned.schema.maxItems + 1)

\* C27: generateArray returns in valid mode an array whose length lies
\* between minItems (0 when absent) and maxItems (10 when absent, and at
\* most 10), maxItems = 0 and minItems > 10 included.
C27_ValidArrayLength ==
    (/\ genPc = "return"
     /\ returned.fn = "generateArray"
     /\ returned.valid)
      => LET schema == returned.schema
             lowest == IF Has(schema, "minItems") THEN schema.minItems ELSE 0
             highest == IF Has(schema, "maxItems") THEN Min(schema.maxItems, 10)
                        ELSE 10
         IN  lowest <= Len(retValue.items) /\ Len(retValue.items) <= highest

\* -------------------------------------------------------------------------
\* Properties of the result statuses (checked under SpecRun)
\* -------------------------------------------------------------------------
\* C29: a result is "error" exactly when no response was obtained after all
\* attempts, and "passed" or "failed" exactly when one was, according to the
\* verdict of the checks; an "error" result carries neither response nor
\* validation, a "passed" or "failed" one carries both.
C29_StatusFollowsTransport ==
    (pc \in {"pace", "done"} /\ Len(results) > 0)
      => /\ (LastResult.status = "error") <=> (outcome = "failed")
         /\ (LastResult.status \in {"passed", "failed"}) <=> (outcome = "response")
         /\ (LastResult.status = "error")
               => (~LastResult.hasResponse /\ ~LastResult.hasValidation)
         /\ (LastResult.status \in {"passed", "failed"})
               => (LastResult.hasResponse /\ LastResult.hasValidation)

\* -------------------------------------------------------------------------
\* APITester.validateResponseSchema in full (api-tester.js, lines 300-359)
\* -------------------------------------------------------------------------
\* A media type and a content-type header are texts cut at "/" and ";":
\* <<"application", "json", "charset=utf-8">> is
\* "application/json; charset=utf-8". The empty text is <<>>.
MaxContent == 2

MediaEntries ==
    {[type |-> <<"application", "json">>, schema |-> "Pet"],
     [type |-> <<"application", "json">>, schema |-> "none"],
     [type |-> <<"application", "*">>, schema |-> "Error"],
     [type |-> <<"*", "*">>, schema |-> "Pet"],
     [type |-> <<"text", "plain">>, schema |-> "Error"]}

\* the content member of a response entry, in Object.entries order
Contents ==
    {content \in UNION {[1..n -> MediaEntries] : n \in 0..MaxContent} :
        \A a, b \in 1..Len(content) :
            (a # b) => (content[a].type # content[b].type)}

NoContent == [description |-> "no content"]
StatusEntries == {NoContent} \cup {[content |-> content] : content \in Contents}
DefaultEntries ==
    {NoContent,
     [content |-> <<[type |-> <<"*", "*">>, schema |-> "Error"]>>],
     [content |-> <<[type |-> <<"application", "json">>, schema |-> "Pet"]>>]}

\* operation.responses: entries under "200" and under "default", each
\* present or not
ResponsesMaps ==
    {[key \in {} |-> NoContent]}
      \cup {[key \in {"200"} |-> entry] : entry \in StatusEntries}
      \cup {[key \in {"default"} |-> entry] : entry \in DefaultEntries}
      \cup {[key \in {"200", "default"} |-> IF key = "200" THEN entry ELSE default] :
               entry \in StatusEntries, default \in DefaultEntries}

\* testCase.operation, with and without a responses member
Operations ==
    {[operationId |-> "listPets"]}
      \cup {[operationId |-> "listPets", responses |-> responses] :
               responses \in ResponsesMaps}

ContentTypes ==
    {<<>>, <<"application", "json">>, <<"application", "json", "charset=utf-8">>,
     <<"text", "plain">>, <<"text", "html">>}

\* a response: its status, its content-type header and the schemas its
\* data satisfies (what the compiled validator of each schema answers)
AnsweredResponses ==
    [status : {200, 404}, contentType : ContentTypes,
     conformsTo : SUBSET {"Pet", "Error"}]

NoMediaType == [type |-> <<>>, schema |-> "none"]

First(indices) == CHOOSE k \in indices : \A j \in indices : k <= j

findMatchingMediaType(content, contentType) ==
    LET baseType == SubSeq(contentType, 1, Min(2, Len(contentType)))
        mainType == baseType[1]
        exact == {k \in 1..Len(content) : content[k].type = contentType}
        partial == {k \in 1..Len(content) : content[k].type = baseType}
        wildcard == {k \in 1..Len(content) :
                        \/ content[k].type = <<mainType, "*">>
                        \/ content[k].type = <<"*", "*">>}
    IN  IF exact # {} THEN content[First(exact)]
        ELSE IF partial # {} THEN content[First(partial)]
        ELSE IF wildcard # {} THEN content[First(wildcard)]
        ELSE NoMediaType

SchemaCheck(valid, message) ==
    [type |-> "schema", valid |-> valid, message |-> message]

\* reading operation.responses.default when operation.responses is
\* undefined throws a TypeError, which the catch of line 353 turns into a
\* failed check
validateResponseSchemaInFull(response, operation) ==
    LET status == ToString(response.status)
    IN  IF ~Has(operation, "responses")
        THEN SchemaCheck(FALSE, <<"Schema validation error: ", "TypeError">>)
        ELSE
          LET responses == operation.responses
          IN  IF ~Has(responses, status) /\ ~Has(responses, "default")
              THEN SchemaCheck(TRUE, <<"No schema defined for this response">>)
              ELSE
                LET responseSpec == IF Has(responses, status) THEN responses[status]
                                    ELSE responses["default"]
                    contentType == IF response.contentType # <<>>
                                   THEN response.contentType
                                   ELSE <<"application", "json">>
                    mediaType == findMatchingMediaType(responseSpec.content,
                                                       contentType)
                IN  IF ~Has(responseSpec, "content")
                    THEN SchemaCheck(TRUE, <<"No content schema defined">>)
                    ELSE IF mediaType = NoMediaType \/ mediaType.schema = "none"
                    THEN SchemaCheck(TRUE, <<"No schema for response content type">>)
                    ELSE IF mediaType.schema \in response.conformsTo
                    THEN SchemaCheck(TRUE, <<"Response schema valid">>)
                    ELSE SchemaCheck(FALSE,
                                     <<"Schema validation failed: ", "errors">>)

ValidateResponseSchema(response, operation) ==
    /\ ~checked.called
    /\ checked' = [called |-> TRUE, response |-> response, operation |-> operation]
    /\ validation' = validateResponseSchemaInFull(response, operation)
    /\ UNCHANGED notValidate

InitSchema ==
    /\ validateResponses = TRUE
    /\ retries = 0
    /\ RunAtRest
    /\ FuzzIdle
    /\ FuzzValueIdle
    /\ GenIdle
    /\ ValidateIdle
    /\ FacadeIdle
    /\ RequestIdle
    /\ SuiteIdle

NextSchema ==
    \E response \in AnsweredResponses, operation \in Operations :
        ValidateResponseSchema(response, operation)

SpecSchema == InitSchema /\ [][NextSchema]_vars

\* the schema the claim says applies to a response: the entry of the status,
\* else the default entry; in its content the exact content type, else the
\* base type, else a wildcard; "none" when any of them is missing
ClaimedSchema(response, operation) ==
    LET entries == IF Has(operation, "responses") THEN operation.responses
                   ELSE [key \in {} |-> NoContent]
        key == IF ToString(response.status) \in DOMAIN entries
               THEN ToString(response.status) ELSE "default"
        content == IF key \in DOMAIN entries /\ Has(entries[key], "content")
                   THEN entries[key].content ELSE <<>>
        sent == IF response.contentType = <<>> THEN <<"application", "json">>
                ELSE response.contentType
        base == <<sent[1], sent[2]>>
        SchemasOf(types) ==
            {content[k].schema : k \in {j \in 1..Len(content) :
                                          content[j].type \in types}}
        wild == {j \in 1..Len(content) :
                    content[j].type \in {<<sent[1], "*">>, <<"*", "*">>}}
    IN  IF SchemasOf({sent}) # {} THEN SchemasOf({sent})
        ELSE IF SchemasOf({base}) # {} THEN SchemasOf({base})
        ELSE IF wild # {} THEN {content[First(wild)].schema}
        ELSE {"none"}

\* C23: the schema check takes the response entry of the observed status,
\* else the default one, and in it the media type of the exact content type,
\* else of the base type, else a wildcard; when no schema applies (no
\* responses member, no entry, no content, no matching media type) the check
\* passes, otherwise it passes exactly when the data satisfies that schema.
C23_SchemaSelection ==
    (checked.called /\ Has(checked, "operation"))
      => LET applies == ClaimedSchema(checked.response, checked.operation)
         IN  validation.valid
               <=> (applies = {"none"} \/ applies \subseteq checked.response.conformsTo)

\* the same, for operations that have a responses member
C23_SelectionWithResponses ==
    (checked.called /\ Has(checked, "operation")
       /\ Has(checked.operation, "responses"))
      => C23_SchemaSelection

\* -------------------------------------------------------------------------
\* JSSchemathesis: the stored results and their summary (index.ts)
\* -------------------------------------------------------------------------
MaxRuns == 2
MaxResults == 3

Repeat(status, n) == [k \in 1..n |-> status]

\* the statuses of the results runTests returns for the cases of one run
RunStatuses ==
    {Repeat("passed", count[1]) \o Repeat("failed", count[2])
       \o Repeat("error", count[3]) :
       count \in {c \in (0..MaxResults) \X (0..MaxResults) \X (0..MaxResults) :
                     c[1] + c[2] + c[3] <= MaxResults}}

\* the results of the run started as the n-th
ResultsOf(n, statuses) ==
    [k \in 1..Len(statuses) |-> [run |-> n, status |-> statuses[k]]]

Ran(n, statuses) ==
    [started |-> n, ran |-> TRUE, results |-> ResultsOf(n, statuses)]
Aborted(n) == [started |-> n, ran |-> FALSE, results |-> <<>>]

\* runFromSchema: "parse" is a throw of parse or generateTests, before the
\* tests run; "report" is a throw of generateReport, after line 80 stored
\* the results
RunFromSchema(thrown, statuses) ==
    /\ runsStarted < MaxRuns
    /\ runsStarted' = runsStarted + 1
    /\ IF thrown = "parse"
       THEN /\ latestRun' = Aborted(runsStarted + 1)
            /\ UNCHANGED storedResults
       ELSE /\ latestRun' = Ran(runsStarted + 1, statuses)
            /\ storedResults' = ResultsOf(runsStarted + 1, statuses)
    /\ summary' = NotAsked
    /\ UNCHANGED notFacade

\* testEndpoint returns what runTests returns; generateForEndpoint throws
\* when the document has no such operation
TestEndpoint(found, statuses) ==
    /\ runsStarted < MaxRuns
    /\ runsStarted' = runsStarted + 1
    /\ latestRun' = IF found THEN Ran(runsStarted + 1, statuses)
                    ELSE Aborted(runsStarted + 1)
    /\ summary' = NotAsked
    /\ UNCHANGED storedResults
    /\ UNCHANGED notFacade

\* fuzzEndpoint likewise, with generateFuzzTests
FuzzEndpoint(found, statuses) ==
    /\ runsStarted < MaxRuns
    /\ runsStarted' = runsStarted + 1
    /\ latestRun' = IF found THEN Ran(runsStarted + 1, statuses)
                    ELSE Aborted(runsStarted + 1)
    /\ summary' = NotAsked
    /\ UNCHANGED storedResults
    /\ UNCHANGED notFacade

getResults == storedResults

Count(list, status) ==
    Cardinality({k \in 1..Len(list) : list[k].status = status})

\* a number of hundredths as the text toFixed(2) gives: 6667 is "66.67"
Hundredths(h) ==
    <<ToString(h \div 100), ".", ToString((h % 100) \div 10), ToString(h % 10)>>

\* ((numerator / denominator) * 100).toFixed(2): to the nearest hundredth
toFixed(numerator, denominator) ==
    Hundredths((20000 * numerator + denominator) \div (2 * denominator))

toFixedDown(numerator, denominator) ==
    Hundredths((10000 * numerator) \div denominator)

NoSummary == [null |-> TRUE]

getSummaryTruncating(list) ==
    IF Len(list) = 0 THEN NoSummary
    ELSE [total |-> Len(list),
          passed |-> Count(list, "passed"),
          failed |-> Count(list, "failed"),
          errors |-> Count(list, "error"),
          passRate |-> toFixedDown(Count(list, "passed"), Len(list))]

getSummary(list) ==
    IF Len(list) = 0 THEN NoSummary
    ELSE [total |-> Len(list),
          passed |-> Count(list, "passed"),
          failed |-> Count(list, "failed"),
          errors |-> Count(list, "error"),
          passRate |-> toFixed(Count(list, "passed"), Len(list))]

GetSummary ==
    /\ ~summary.asked
    /\ summary' = [asked |-> TRUE, value |-> getSummary(storedResults)]
    /\ UNCHANGED <<storedResults, latestRun, runsStarted>>
    /\ UNCHANGED notFacade

InitFacade ==
    /\ validateResponses = TRUE
    /\ retries = 0
    /\ RunAtRest
    /\ FuzzIdle
    /\ FuzzValueIdle
    /\ GenIdle
    /\ ValidateIdle
    /\ FacadeIdle
    /\ RequestIdle
    /\ SuiteIdle

NextFacade ==
    \/ \E thrown \in {"nothing", "parse", "report"}, statuses \in RunStatuses :
          RunFromSchema(thrown, statuses)
    \/ \E found \in BOOLEAN, statuses \in RunStatuses :
          TestEndpoint(found, statuses)
    \/ \E found \in BOOLEAN, statuses \in RunStatuses :
          FuzzEndpoint(found, statuses)
    \/ GetSummary

SpecFacade == InitFacade /\ [][NextFacade]_vars

\* C24: after any sequence of runFromSchema, testEndpoint and fuzzEndpoint
\* calls, getResults returns exactly the results of the run started last
\* (here: whenever that run got as far as running its tests) and nothing of
\* an earlier run.
C24_ResultsOfLatestRun ==
    (runsStarted > 0 /\ latestRun.ran) => (getResults = latestRun.results)

\* C25: getSummary returns null when no results are stored; otherwise total
\* is the number of stored results, total = passed + failed + errors, and
\* passRate is 100 * passed / total rounded to two decimals.
C25_Summary ==
    summary.asked
      => LET value == summary.value
             total == Len(storedResults)
             passed == Count(storedResults, "passed")
         IN  IF total = 0 THEN value = NoSummary
             ELSE /\ value # NoSummary
                  /\ value.total = total
                  /\ value.total = value.passed + value.failed + value.errors
                  /\ value.passed = passed
                  /\ \E h \in 0..10000 :
                        /\ value.passRate = Hundredths(h)
                        /\ 2 * (h * total - 10000 * passed) <= total
                        /\ 2 * (10000 * passed - h * total) <= total

\* a summary of three stored results of which two passed: 66.67
C25_Witness ==
    /\ summary.asked
    /\ Len(storedResults) = 3
    /\ Count(storedResults, "passed") = 2
    /\ summary.value.passRate = <<"66", ".", "6", "7">>

\* -------------------------------------------------------------------------
\* One case from generateForEndpoint to buildRequest
\* (test-generator.ts, lines 78-209; api-tester.js, lines 157-190)
\* -------------------------------------------------------------------------
\* A header value is a fixed text or a value generateValueForSchema made,
\* which carries the mode it was generated in.
Plain(text) == [text |-> text]
Generated(valid, text) == [valid |-> valid, text |-> text]

\* the texts generateValueForSchema may return for a parameter or a body
GeneratedTexts == {"a b", "{id}"}

EmptyMap == [key \in {} |-> NotBuilt]
Only(key, value) == [k \in {key} |-> value]

\* Object.assign(target, source), and target[key] = value
Assign(target, source) ==
    [key \in DOMAIN target \cup DOMAIN source |->
        IF key \in DOMAIN source THEN source[key] ELSE target[key]]

\* A path is a text cut at its placeholders: "/pets/{id}" is
\* <<Segment("/pets/"), Placeholder("id")>>.
Segment(text) == [segment |-> text]
Placeholder(name) == [placeholder |-> name]

Templates ==
    {<<Segment("/pets")>>,
     <<Segment("/pets/"), Placeholder("id")>>,
     <<Segment("/pets/"), Placeholder("id"), Segment("/toys/"), Placeholder("toy")>>,
     <<Segment("/pets/"), Placeholder("id"), Segment("/twin/"), Placeholder("id")>>}

Parameter(name, in, required) == [name |-> name, in |-> in, required |-> required]

\* operation.parameters; an operation without parameters has <<>>
ParameterLists ==
    {<<>>,
     <<Parameter("id", "path", TRUE)>>,
     <<Parameter("id", "path", TRUE), Parameter("toy", "path", TRUE)>>,
     <<Parameter("X-Key", "header", TRUE)>>,
     <<Parameter("X-Key", "header", FALSE)>>,
     <<Parameter("Content-Type", "header", TRUE), Parameter("id", "path", TRUE)>>,
     <<Parameter("X-Key", "query", TRUE), Parameter("X-Key", "header", TRUE),
       Parameter("sid", "cookie", FALSE)>>}

Media(type, schema) == [type |-> type, schema |-> schema]

\* operation.requestBody.content, in Object.keys order
BodyContents ==
    {<<>>,
     <<Media("application/xml", TRUE)>>,
     <<Media("application/xml", TRUE), Media("application/json", TRUE)>>,
     <<Media("application/json", FALSE)>>}

SentOperations ==
    [method : {"get", "post"}, path : Templates, parameters : ParameterLists]
      \cup [method : {"get", "post"}, path : Templates,
            parameters : ParameterLists, requestBody : BodyContents]

toUpperCase(method) == IF method = "get" THEN "GET" ELSE "POST"
toLowerCase(method) == IF method = "GET" THEN "get" ELSE "post"

\* ct.includes("json")
IncludesJson(type) == type = "application/json"

RECURSIVE generateParameters(_, _, _)
generateParameters(parameters, values, valid) ==
    IF parameters = <<>> THEN EmptyMap
    ELSE
      LET n == Len(parameters)
          param == parameters[n]
          before == generateParameters(SubSeq(parameters, 1, n - 1), values, valid)
          value == Generated(valid, values[n])
          place == IF Has(before, param.in) THEN before[param.in] ELSE EmptyMap
      IN  IF param.in \in {"path", "query", "header"}
          THEN Assign(before,
                      Only(param.in, Assign(place, Only(param.name, value))))
          ELSE before

NoBody == [null |-> TRUE]

generateRequestBody(operation, value, valid) ==
    IF ~Has(operation, "requestBody") THEN NoBody
    ELSE
      LET content == operation.requestBody
          json == {k \in 1..Len(content) : IncludesJson(content[k].type)}
          mediaType == IF json # {} THEN content[First(json)] ELSE content[1]
      IN  IF Len(content) = 0 THEN NoBody
          ELSE IF ~mediaType.schema THEN NoBody
          ELSE [contentType |-> mediaType.type, data |-> Generated(valid, value)]

DefaultHeaders ==
    Assign(Only("Content-Type", Plain("application/json")),
           Only("Accept", Plain("application/json")))

\* the required header parameters, each generated in valid mode
RECURSIVE RequiredHeaders(_, _)
RequiredHeaders(parameters, values) ==
    IF parameters = <<>> THEN EmptyMap
    ELSE
      LET n == Len(parameters)
          p == parameters[n]
          before == RequiredHeaders(SubSeq(parameters, 1, n - 1), values)
      IN  IF p.in = "header" /\ p.required
          THEN Assign(before, Only(p.name, Generated(TRUE, values[n])))
          ELSE before

generateHeadersDefaultsLast(operation, values) ==
    Assign(RequiredHeaders(operation.parameters, values), DefaultHeaders)

generateHeaders(operation, values) ==
    Assign(DefaultHeaders, RequiredHeaders(operation.parameters, values))

\* one case of generateForEndpoint (lines 79-116), valid or invalid
GenerateCase(operation, valid, values, headerValues, bodyValue) ==
    /\ ~requestCase.built
    /\ requestCase' =
          [built |-> TRUE,
           path |-> operation.path,
           method |-> toUpperCase(operation.method),
           operation |-> operation,
           type |-> IF valid THEN "valid" ELSE "invalid",
           parameters |-> generateParameters(operation.parameters, values, valid),
           requestBody |-> generateRequestBody(operation, bodyValue, valid),
           headers |-> generateHeaders(operation, headerValues)]
    /\ UNCHANGED config
    /\ UNCHANGED notRequest

\* encodeURIComponent of a generated text
encodeURIComponent(value) ==
    IF value.text = "a b" THEN "a%20b"
    ELSE IF value.text = "{id}" THEN "%7Bid%7D"
    ELSE value.text

\* url.replace(`{${key}}`, text): a text pattern matches once, the first
\* occurrence
replace(url, key, text) ==
    LET matches == {k \in 1..Len(url) : url[k] = Placeholder(key)}
    IN  IF matches = {} THEN url
        ELSE [url EXCEPT ![First(matches)] = Segment(text)]

\* the loop of lines 162-164 over the entries of parameters.path
RECURSIVE Substituted(_, _, _)
Substituted(url, path, keys) ==
    IF keys = {} THEN url
    ELSE LET key == CHOOSE k \in keys : TRUE
         IN  Substituted(replace(url, key, encodeURIComponent(path[key])),
                         path, keys \ {key})

SendsBody(testCase) ==
    /\ testCase.requestBody # NoBody
    /\ toLowerCase(testCase.method) \in {"post", "put", "patch"}

HeaderParameters(testCase) ==
    IF Has(testCase.parameters, "header") THEN testCase.parameters.header
    ELSE EmptyMap

BodyContentType(testCase) ==
    IF SendsBody(testCase)
    THEN Only("Content-Type", Plain(testCase.requestBody.contentType))
    ELSE EmptyMap

BuiltUrl(testCase) ==
    IF Has(testCase.parameters, "path")
    THEN Substituted(testCase.path, testCase.parameters.path,
                     DOMAIN testCase.parameters.path)
    ELSE testCase.path

buildRequestCaseHeadersLast(testCase) ==
    [built |-> TRUE,
     method |-> toLowerCase(testCase.method),
     url |-> BuiltUrl(testCase),
     sendsData |-> SendsBody(testCase),
     headers |-> Assign(Assign(HeaderParameters(testCase), BodyContentType(testCase)),
                        testCase.headers)]

buildRequest(testCase) ==
    [built |-> TRUE,
     method |-> toLowerCase(testCase.method),
     url |-> BuiltUrl(testCase),
     sendsData |-> SendsBody(testCase),
     headers |-> Assign(Assign(testCase.headers, BodyContentType(testCase)),
                        HeaderParameters(testCase))]

BuildRequest ==
    /\ requestCase.built
    /\ ~config.built
    /\ config' = buildRequest(requestCase)
    /\ UNCHANGED requestCase
    /\ UNCHANGED notRequest

InitRequest ==
    /\ validateResponses = TRUE
    /\ retries = 0
    /\ RunAtRest
    /\ FuzzIdle
    /\ FuzzValueIdle
    /\ GenIdle
    /\ ValidateIdle
    /\ FacadeIdle
    /\ RequestIdle
    /\ SuiteIdle

NextRequest ==
    \/ \E operation \in SentOperations, valid \in BOOLEAN,
          bodyValue \in GeneratedTexts :
          \E values \in [1..Len(operation.parameters) -> GeneratedTexts],
             headerValues \in [1..Len(operation.parameters) -> GeneratedTexts] :
             GenerateCase(operation, valid, values, headerValues, bodyValue)
    \/ BuildRequest

SpecRequest == InitRequest /\ [][NextRequest]_vars

\* the required header parameters an operation declares
RequiredHeaderNames(operation) ==
    {operation.parameters[k].name :
        k \in {j \in 1..Len(operation.parameters) :
                  /\ operation.parameters[j].in = "header"
                  /\ operation.parameters[j].required}}

\* C21: the headers of every generated case, valid or invalid, hold the
\* default Content-Type and Accept and a key for each required header
\* parameter of the operation, whose generated value replaces a default of
\* the same name.
C21_RequiredHeadersPresent ==
    requestCase.built
      => /\ {"Content-Type", "Accept"} \subseteq DOMAIN requestCase.headers
         /\ \A name \in RequiredHeaderNames(requestCase.operation) :
               /\ name \in DOMAIN requestCase.headers
               /\ Has(requestCase.headers[name], "valid")

\* an invalid case of an operation with a required Content-Type header
C21_Witness ==
    /\ requestCase.built
    /\ requestCase.type = "invalid"
    /\ "Content-Type" \in RequiredHeaderNames(requestCase.operation)
    /\ requestCase.headers["Content-Type"] # Plain("application/json")
    /\ requestCase.headers["Accept"] = Plain("application/json")

\* C28: the URL buildRequest builds holds no {name} placeholder whose name
\* is a key of the path parameters of the case, also when the placeholder
\* occurs more than once in the path.
C28_NoPlaceholderLeft ==
    (config.built /\ Has(requestCase.parameters, "path"))
      => \A name \in DOMAIN requestCase.parameters.path :
            \A k \in 1..Len(config.url) : config.url[k] # Placeholder(name)

\* C30: the headers of the request are the headers of the case, then the
\* content type of the request body (post, put, patch with a body only),
\* then the header parameters of the case: a header parameter wins, and for
\* an invalid case a required header is sent with its invalid-mode value.
C30_HeaderLayers ==
    config.built
      => LET sent == config.headers
             params == IF "header" \in DOMAIN requestCase.parameters
                       THEN requestCase.parameters.header ELSE EmptyMap
             body == /\ requestCase.requestBody # NoBody
                     /\ config.method \in {"post", "put", "patch"}
         IN  /\ DOMAIN sent = DOMAIN requestCase.headers \cup DOMAIN params
             /\ \A key \in DOMAIN sent :
                   sent[key] =
                     IF key \in DOMAIN params THEN params[key]
                     ELSE IF body /\ key = "Content-Type"
                     THEN Plain(requestCase.requestBody.contentType)
                     ELSE requestCase.headers[key]
             /\ (requestCase.type = "invalid")
                   => \A name \in RequiredHeaderNames(requestCase.operation) :
                         /\ sent[name] = params[name]
                         /\ ~sent[name].valid

\* the request of an invalid post case with a body and a required header
C30_Witness ==
    /\ config.built
    /\ requestCase.type = "invalid"
    /\ config.method = "post"
    /\ requestCase.requestBody # NoBody
    /\ "X-Key" \in RequiredHeaderNames(requestCase.operation)
    /\ requestCase.headers["X-Key"].valid
    /\ ~config.headers["X-Key"].valid
    /\ config.headers["Content-Type"] = Plain("application/xml")

====
